---------------------------- MODULE Spec2Model ----------------------------
(***************************************************************************)
(* Tiered time-series aggregation and roll-up engine of demo_back.         *)
(*                                                                         *)
(*   Spec      the reporting aggregate store: DailyAggregate and           *)
(*             MonthlyAggregate rows written by the aggregation service,   *)
(*             the overtime import and the monthly management command.     *)
(*   SpecFlux  the tiered Flux query builder of analytics.energy_service.  *)
(*   SpecDelta the counter-to-delta reducer of analytics.energy_service.   *)
(*   SpecTasks the Celery tasks of reporting.tasks and their batch loops.  *)
(*   SpecRace  two concurrent aggregation jobs for one key.                *)
(*   SpecBench the efficiency benchmarks of the benchmark service.         *)
(*   SpecTargets the target tracker of reporting.services.target_service.  *)
(*   SpecDevices the device hierarchy and the fixed attributes of a        *)
(*             ModbusDevice (modbus.views, modbus.serializers).            *)
(*   SpecRegisters the registers of a device over creates and updates.     *)
(*                                                                         *)
(* Conventions.  Python floats are modelled by exact numbers: sums stay    *)
(* integers, quotients are fractions <<n, d>> in lowest terms.  A nullable *)
(* value is a sequence of length 0 (None / NaN) or 1 (the value).  Dates   *)
(* are day ordinals of one calendar year (1 = 1 January).  Money is kept   *)
(* in hundredths, so that the tariff 0.15 is the integer 15.               *)
(***************************************************************************)
EXTENDS Integers, Sequences, FiniteSets, Bags, TLC

VARIABLES
    daily,      \* bag of DailyAggregate rows (reporting_dailyaggregate)
    monthly,    \* bag of MonthlyAggregate rows (reporting_monthlyaggregate)
    lastOp,     \* the operation that ran last and how it ended
    flux,       \* SpecFlux: the last call of _build_flux_query and its result
    frame,      \* SpecDelta: the data frame handed to _compute_hourly_daily and its result
    benchmarks, \* bag of EfficiencyBenchmark rows (reporting_efficiencybenchmark)
    jobs,       \* the jobs in flight, each with its position (SpecRace, SpecTargets)
    targets,    \* the Target rows (reporting_target), by id
    modbus_devices \* the ModbusDevice rows with their registers (modbus_modbusdevice), by id

vars == <<daily, monthly, lastOp, flux, frame, benchmarks, jobs, targets, modbus_devices>>

-----------------------------------------------------------------------------
(* Nullable values and exact fractions                                     *)

None == <<>>

Some(v) == <<v>>

IsNone(x) == Len(x) = 0

Val(x) == x[1]

RECURSIVE GCD(_, _)
GCD(a, b) == IF b = 0 THEN a ELSE GCD(b, a % b)

\* n / d for n >= 0, d > 0, in lowest terms
Frac(n, d) == LET g == GCD(n, d) IN <<n \div g, d \div g>>

FracEq(p, q) == p[1] * q[2] = q[1] * p[2]

RECURSIVE SumSeq(_)
SumSeq(s) == IF s = <<>> THEN 0 ELSE Head(s) + SumSeq(Tail(s))

RECURSIVE MaxSeq(_)
MaxSeq(s) ==
    IF Len(s) = 1 THEN Head(s)
    ELSE LET m == MaxSeq(Tail(s)) IN IF Head(s) >= m THEN Head(s) ELSE m

-----------------------------------------------------------------------------
(* Calendar: datetime.date arithmetic of one (leap) year                   *)

DaysInMonth == <<31, 29, 31, 30, 31, 30, 31, 31, 30, 31, 30, 31>>

RECURSIVE MonthStart(_)
\* ordinal of the first day of month m; m = 13 is January of the next year
MonthStart(m) == IF m = 1 THEN 1 ELSE MonthStart(m - 1) + DaysInMonth[m - 1]

MonthOf(d) == CHOOSE m \in 1..12 : MonthStart(m) <= d /\ d < MonthStart(m + 1)

DateOf(m, day) == MonthStart(m) + day - 1

\* date.replace(day=1)
ReplaceDay1(d) == MonthStart(MonthOf(d))

\* timedelta(days=32): far enough to land in the next month from any first-of-month
MonthStep == 32

\* (target_month + timedelta(days=32)).replace(day=1) - timedelta(days=1)
MonthEnd(target_month) == ReplaceDay1(target_month + MonthStep) - 1

-----------------------------------------------------------------------------
(* Field names are sequences of characters, so that substring tests and    *)
(* str.lower() are computed, not assumed.                                  *)

F_time ==
    <<"t", "i", "m", "e">>

F_total_energy ==
    <<"t", "o", "t", "a", "l", "_", "e", "n", "e", "r", "g", "y">>

F_total_active_power ==
    <<"t", "o", "t", "a", "l", "_", "a", "c", "t", "i", "v", "e", "_", "p", "o", "w", "e", "r">>

F_active_power_total ==
    <<"a", "c", "t", "i", "v", "e", "_", "p", "o", "w", "e", "r", "_", "t", "o", "t", "a", "l">>

F_Light_kwh ==
    <<"L", "i", "g", "h", "t", "_", "k", "w", "h">>

F_voltage ==
    <<"v", "o", "l", "t", "a", "g", "e">>

P_light ==
    <<"l", "i", "g", "h", "t">>

P_machine ==
    <<"m", "a", "c", "h", "i", "n", "e">>

P_motor ==
    <<"m", "o", "t", "o", "r">>

P_hvac ==
    <<"h", "v", "a", "c">>

P_cooling ==
    <<"c", "o", "o", "l", "i", "n", "g">>

P_ac ==
    <<"a", "c">>

P_exhaust ==
    <<"e", "x", "h", "a", "u", "s", "t">>

P_fan ==
    <<"f", "a", "n">>

P_office ==
    <<"o", "f", "f", "i", "c", "e">>

P_laser ==
    <<"l", "a", "s", "e", "r">>

UpperAlpha ==
    <<"A", "B", "C", "D", "E", "F", "G", "H", "I", "J", "K", "L", "M",
      "N", "O", "P", "Q", "R", "S", "T", "U", "V", "W", "X", "Y", "Z">>

LowerAlpha ==
    <<"a", "b", "c", "d", "e", "f", "g", "h", "i", "j", "k", "l", "m",
      "n", "o", "p", "q", "r", "s", "t", "u", "v", "w", "x", "y", "z">>

LowerChar(c) ==
    IF \E i \in 1..Len(UpperAlpha) : UpperAlpha[i] = c
    THEN LowerAlpha[CHOOSE i \in 1..Len(UpperAlpha) : UpperAlpha[i] = c]
    ELSE c

\* str.lower()
Lower(s) == [i \in 1..Len(s) |-> LowerChar(s[i])]

\* pat in s
Contains(s, pat) ==
    \E i \in 0..(Len(s) - Len(pat)) : \A j \in 1..Len(pat) : s[i + j] = pat[j]

\* _identify_component: the first matching branch wins, None when none matches
IdentifyComponent(field_name) ==
    LET field_lower == Lower(field_name) IN
    IF Contains(field_lower, P_light) THEN Some("lights")
    ELSE IF Contains(field_lower, P_machine) \/ Contains(field_lower, P_motor)
         THEN Some("machines")
    ELSE IF Contains(field_lower, P_hvac) \/ Contains(field_lower, P_cooling)
            \/ Contains(field_lower, P_ac)
         THEN Some("hvac")
    ELSE IF Contains(field_lower, P_exhaust) \/ Contains(field_lower, P_fan)
         THEN Some("exhaust_fan")
    ELSE IF Contains(field_lower, P_office) THEN Some("office")
    ELSE IF Contains(field_lower, P_laser) THEN Some("laser")
    ELSE None

\* the fields whose values are accumulated into total_energy
EnergyFields == {F_total_energy, F_total_active_power, F_active_power_total}


-----------------------------------------------------------------------------
(* The collaborators' data: devices, the time-series store, production     *)

Devices == {"D1", "D2"}

Jan1 == DateOf(1, 1)

Jan31 == DateOf(1, 31)

Feb1 == DateOf(2, 1)

\* the (device, date) units of work the jobs are triggered for
Targets == {<<"D1", Jan1>>, <<"D1", Jan31>>, <<"D1", Feb1>>, <<"D2", Jan31>>}

\* the stored series of each device: its columns and its rows [time, field1, ...]
\* (time at day resolution; a row may be shorter than the column list)
InfluxColumns(device) ==
    IF device = "D1" THEN <<F_time, F_total_energy, F_Light_kwh>>
    ELSE <<F_time, F_active_power_total, F_voltage>>

InfluxRows(device) ==
    IF device = "D1"
    THEN << <<Some(Jan1), Some(10), Some(3)>>,
            <<Some(Jan1), Some(12), None>>,
            <<Some(Feb1), Some(5)>> >>
    ELSE << <<Some(Jan31), Some(4), Some(7)>> >>

\* the ProductionData table (one shift record per device and date)
ProductionRecords ==
    { [device |-> "D1", date |-> Jan1, units_produced |-> 2],
      [device |-> "D1", date |-> Feb1, units_produced |-> 0] }

\* ProductionData.objects.filter(device, date).first().units_produced, None without a record
ProductionUnits(device, date) ==
    LET found == {p \in ProductionRecords : p.device = device /\ p.date = date} IN
    IF found = {} THEN None ELSE Some((CHOOSE p \in found : TRUE).units_produced)

\* the daily units (kWh) a sheet of the imported workbook may hold for a device and date
SheetDailyUnits == {6}

-----------------------------------------------------------------------------
(* InfluxDB v1 query and the parse of its JSON response                    *)

RECURSIVE FilterRows(_, _, _)
\* WHERE time >= start AND time < end
FilterRows(rows, start, end) ==
    IF rows = <<>> THEN <<>>
    ELSE LET r == Head(rows)
             rest == FilterRows(Tail(rows), start, end)
         IN IF start <= Val(r[1]) /\ Val(r[1]) < end THEN <<r>> \o rest ELSE rest

\* the response of the query built by _build_energy_query: result['results'][0]['series'],
\* absent (the empty list here) when no row matches
EnergyQuery(device, start, end) ==
    LET values == FilterRows(InfluxRows(device), start, end) IN
    IF values = <<>> THEN <<>>
    ELSE << [columns |-> InfluxColumns(device), values |-> values] >>

\* value = row[i] if i < len(row) else None
CellValue(row, i) == IF i <= Len(row) THEN row[i] ELSE None

RECURSIVE RowCells(_, _, _)
\* the (field_name, value) pairs of one row the inner loop does not skip
RowCells(columns, row, i) ==
    IF i > Len(columns) THEN <<>>
    ELSE LET rest == RowCells(columns, row, i + 1) IN
         IF columns[i] = F_time \/ i = 1 THEN rest
         ELSE IF IsNone(CellValue(row, i)) THEN rest
         ELSE << [field |-> columns[i], value |-> Val(CellValue(row, i))] >> \o rest

RECURSIVE SeriesCells(_, _)
SeriesCells(columns, values) ==
    IF values = <<>> THEN <<>>
    ELSE RowCells(columns, Head(values), 1) \o SeriesCells(columns, Tail(values))

RECURSIVE ResponseCells(_)
\* every (field_name, value) pair, in the order the three nested loops visit them
ResponseCells(series) ==
    IF series = <<>> THEN <<>>
    ELSE SeriesCells(Head(series).columns, Head(series).values)
         \o ResponseCells(Tail(series))

RECURSIVE PowerValues(_)
\* power_values: the values of the energy fields, in order
PowerValues(cells) ==
    IF cells = <<>> THEN <<>>
    ELSE IF Head(cells).field \in EnergyFields
         THEN <<Head(cells).value>> \o PowerValues(Tail(cells))
         ELSE PowerValues(Tail(cells))

\* total_energy += float(value) for every energy field
TotalEnergy(cells) == SumSeq(PowerValues(cells))

\* dict.get(key, 0) + value
DictAdd(dict, key, value) ==
    IF key \in DOMAIN dict
    THEN [dict EXCEPT ![key] = @ + value]
    ELSE [k \in DOMAIN dict \cup {key} |-> IF k = key THEN value ELSE dict[k]]

EmptyDict == [k \in {} |-> 0]

RECURSIVE Breakdown(_, _)
\* component_breakdown accumulated over the cells
Breakdown(cells, acc) ==
    IF cells = <<>> THEN acc
    ELSE LET component == IdentifyComponent(Head(cells).field) IN
         Breakdown(Tail(cells),
                   IF IsNone(component) THEN acc
                   ELSE DictAdd(acc, Val(component), Head(cells).value))

\* tariff_rate = 0.15, in hundredths
TariffRate == 15

\* the defaults dict of the daily update_or_create, computed from the parsed response
DailyDefaults(device, date, series) ==
    LET cells == ResponseCells(series)
        total_energy == TotalEnergy(cells)
        power_values == PowerValues(cells)
        units_produced == ProductionUnits(device, date)
    IN [ total_energy_kwh |-> total_energy,
         avg_power_kw |->
            IF power_values # <<>> THEN Frac(SumSeq(power_values), Len(power_values))
            ELSE Frac(0, 1),
         peak_power_kw |-> IF power_values # <<>> THEN MaxSeq(power_values) ELSE 0,
         component_breakdown |-> Breakdown(cells, EmptyDict),
         units_produced |-> units_produced,
         efficiency_kwh_per_unit |->
            IF ~IsNone(units_produced) /\ Val(units_produced) > 0 /\ total_energy > 0
            THEN Some(Frac(total_energy, Val(units_produced)))
            ELSE None,
         total_cost |-> total_energy * TariffRate ]

-----------------------------------------------------------------------------
(* The DailyAggregate table                                                *)

\* bounds of the model: the rows the two tables may hold
MaxDailyRows == 4

MaxMonthlyRows == 3

\* the table may take one more row
DailyRoom(table) == BagCardinality(table) < MaxDailyRows

MonthlyRoom(table) == BagCardinality(table) < MaxMonthlyRows

\* the rows of a bag, each counted once
Rows(table) == BagToSet(table)

RECURSIVE CountRows(_, _)
\* QuerySet.count() of the rows in set S of the table
CountRows(table, S) ==
    IF S = {} THEN 0
    ELSE LET r == CHOOSE x \in S : TRUE IN CopiesIn(r, table) + CountRows(table, S \ {r})

\* DailyAggregate.objects.filter(device=device, date=date)
DailyLookup(table, device, date) ==
    {r \in Rows(table) : r.device = device /\ r.date = date}

\* mutant: no unique constraint on the table
DailyUniqueOk_Unconstrained(table, row) == TRUE

\* unique_together = ['device', 'date', 'is_overtime']: may the row be inserted
DailyUniqueOk(table, row) ==
    ~\E r \in Rows(table) :
        r.device = row.device /\ r.date = row.date /\ r.is_overtime = row.is_overtime

\* a new DailyAggregate: the lookup, the defaults, and the model's field defaults
NewDaily(device, date, is_overtime, defaults) ==
    [ device |-> device, date |-> date, is_overtime |-> is_overtime,
      total_energy_kwh |-> defaults.total_energy_kwh,
      avg_power_kw |-> defaults.avg_power_kw,
      peak_power_kw |-> defaults.peak_power_kw,
      component_breakdown |-> defaults.component_breakdown,
      units_produced |-> defaults.units_produced,
      efficiency_kwh_per_unit |-> defaults.efficiency_kwh_per_unit,
      total_cost |-> defaults.total_cost,
      meter_reading |-> defaults.meter_reading,
      daily_units_kwh |-> defaults.daily_units_kwh ]

\* mutant: the update adds the new total to the stored one instead of replacing it
ApplyDailyDefaults_Accumulate(row, defaults) ==
    [row EXCEPT !.total_energy_kwh = @ + defaults.total_energy_kwh,
                !.avg_power_kw = defaults.avg_power_kw,
                !.peak_power_kw = defaults.peak_power_kw,
                !.component_breakdown = defaults.component_breakdown,
                !.units_produced = defaults.units_produced,
                !.efficiency_kwh_per_unit = defaults.efficiency_kwh_per_unit,
                !.total_cost = defaults.total_cost]

\* setattr(obj, k, v) for the keys of the aggregation service's defaults
ApplyDailyDefaults(row, defaults) ==
    [row EXCEPT !.total_energy_kwh = defaults.total_energy_kwh,
                !.avg_power_kw = defaults.avg_power_kw,
                !.peak_power_kw = defaults.peak_power_kw,
                !.component_breakdown = defaults.component_breakdown,
                !.units_produced = defaults.units_produced,
                !.efficiency_kwh_per_unit = defaults.efficiency_kwh_per_unit,
                !.total_cost = defaults.total_cost]

\* the field defaults of the model for what a defaults dict leaves out
ModelDefaults ==
    [ total_energy_kwh |-> 0, avg_power_kw |-> Frac(0, 1), peak_power_kw |-> 0,
      component_breakdown |-> EmptyDict, units_produced |-> None,
      efficiency_kwh_per_unit |-> None, total_cost |-> 0,
      meter_reading |-> None, daily_units_kwh |-> None ]

\* d1 | d2 on records
Merge(d1, d2) ==
    [k \in DOMAIN d1 \cup DOMAIN d2 |-> IF k \in DOMAIN d2 THEN d2[k] ELSE d1[k]]

\* the record of an operation: what ran, for which unit of work, how it ended, and
\* what it found stored under the key it wrote ("none", "row", or "fallback" for a
\* MonthlyAggregate that is the one the direct-query path writes)
Op(name, device, date, outcome, prior) ==
    [op |-> name, device |-> device, date |-> date, outcome |-> outcome,
     prior |-> prior]

\* _aggregate_device_daily inside the try of aggregate_daily_data's loop: query, parse,
\* DailyAggregate.objects.update_or_create(device, date, defaults); the table
\* afterwards and how the unit of work ended
DailyStep(table, device, date, query_ok) ==
    LET defaults == DailyDefaults(device, date, EnergyQuery(device, date, date + 1))
        found == DailyLookup(table, device, date)
        n == CountRows(table, found)
        new == NewDaily(device, date, FALSE, Merge(ModelDefaults, defaults))
    IN
    IF ~query_ok
    THEN \* requests raised: logged, None returned
         [table |-> table, outcome |-> "query_failed", prior |-> "none"]
    ELSE IF n > 1
    THEN \* MultipleObjectsReturned, caught by aggregate_daily_data
         [table |-> table, outcome |-> "error", prior |-> "none"]
    ELSE IF n = 1
    THEN LET obj == CHOOSE r \in found : TRUE IN
         [table |-> (table (-) SetToBag({obj}))
                        (+) SetToBag({ApplyDailyDefaults(obj, defaults)}),
          outcome |-> "updated", prior |-> "row"]
    ELSE IF DailyUniqueOk(table, new)
    THEN [table |-> table (+) SetToBag({new}), outcome |-> "created", prior |-> "none"]
    ELSE \* IntegrityError, caught by aggregate_daily_data
         [table |-> table, outcome |-> "error", prior |-> "none"]

\* aggregate_daily_data(target_date, device): the loop over [device]
AggregateDaily(device, date, query_ok) ==
    LET step == DailyStep(daily, device, date, query_ok) IN
    /\ UNCHANGED <<monthly, flux, frame, benchmarks, jobs, targets, modbus_devices>>
    /\ step.outcome = "created" => DailyRoom(daily)
    /\ daily' = step.table
    /\ lastOp' = Op("aggregate_daily", device, date, step.outcome, step.prior)


-----------------------------------------------------------------------------
(* import_excel_data: the writer of the overtime rows                      *)

HoursPerDay == 24

\* DailyAggregate.objects.filter(device=device, date=date, is_overtime=flag)
DailyLookupKey(table, device, date, is_overtime) ==
    {r \in DailyLookup(table, device, date) : r.is_overtime = is_overtime}

\* _import_overtime_sheet, one data row: get_or_create of the overtime row only
ImportOvertime(device, date, daily_units) ==
    LET found == DailyLookupKey(daily, device, date, TRUE)
        defaults == [ total_energy_kwh |-> daily_units,
                      daily_units_kwh |-> Some(daily_units),
                      avg_power_kw |->
                          IF daily_units # 0 THEN Frac(daily_units, HoursPerDay)
                          ELSE Frac(0, 1) ]
        new == NewDaily(device, date, TRUE, Merge(ModelDefaults, defaults))
    IN
    /\ daily_units # 0
    /\ UNCHANGED <<monthly, flux, frame, benchmarks, jobs, targets, modbus_devices>>
    /\ IF found = {}
       THEN /\ DailyUniqueOk(daily, new)
            /\ DailyRoom(daily)
            /\ daily' = daily (+) SetToBag({new})
            /\ lastOp' = Op("import_overtime", device, date, "created", "none")
       ELSE /\ UNCHANGED daily
            /\ lastOp' = Op("import_overtime", device, date, "exists", "row")


-----------------------------------------------------------------------------
(* Monthly roll-up of ReportingAggregationService                          *)

RECURSIVE SumOver(_, _, _)
\* sum(F(agg) for agg in queryset): every row of S, as often as the table holds it
SumOver(table, S, f) ==
    IF S = {} THEN 0
    ELSE LET r == CHOOSE x \in S : TRUE IN
         CopiesIn(r, table) * f[r] + SumOver(table, S \ {r}, f)

\* max((F(agg) for agg in queryset), default=0)
MaxOver(S, f) ==
    IF S = {} THEN 0 ELSE LET r == CHOOSE x \in S : \A y \in S : f[x] >= f[y] IN f[r]

RECURSIVE SumBreakdowns(_, _, _)
\* the key-wise sum of the rows' component_breakdown dicts
SumBreakdowns(table, S, acc) ==
    IF S = {} THEN acc
    ELSE LET r == CHOOSE x \in S : TRUE
             d == r.component_breakdown
             keys == DOMAIN acc \cup DOMAIN d
             add == [k \in keys |->
                        (IF k \in DOMAIN acc THEN acc[k] ELSE 0)
                        + (IF k \in DOMAIN d THEN CopiesIn(r, table) * d[k] ELSE 0)]
         IN SumBreakdowns(table, S \ {r}, add)

\* agg.units_produced for agg in daily_aggregates if agg.units_produced
UnitsOf(agg) == IF IsNone(agg.units_produced) THEN 0 ELSE Val(agg.units_produced)

\* mutant: the upper bound of the range is the first day of the next month
DailyOfMonth_NextMonthStart(table, device, target_month) ==
    {r \in Rows(table) :
        r.device = device /\ r.date >= target_month
        /\ r.date <= MonthEnd(target_month) + 1}

\* DailyAggregate.objects.filter(device=device, date__gte=month_start, date__lte=month_end)
DailyOfMonth(table, device, target_month) ==
    {r \in Rows(table) :
        r.device = device /\ r.date >= target_month /\ r.date <= MonthEnd(target_month)}

\* days_in_month = (month_end - month_start).days + 1
DaysInMonthOf(target_month) == (MonthEnd(target_month) - target_month) + 1

Percent == 100

\* the defaults dict of _aggregate_monthly_from_daily over the queryset S
MonthlyFromDailyDefaults(table, S, target_month) ==
    LET total_energy == SumOver(table, S, [agg \in S |-> agg.total_energy_kwh])
        count == CountRows(table, S)
        total_units == SumOver(table, S, [agg \in S |-> UnitsOf(agg)])
    IN [ total_energy_kwh |-> total_energy,
         avg_daily_energy_kwh |-> Frac(total_energy, count),
         peak_power_kw |-> MaxOver(S, [agg \in S |-> agg.peak_power_kw]),
         component_breakdown |-> SumBreakdowns(table, S, EmptyDict),
         total_units_produced |-> Some(total_units),
         efficiency_kwh_per_unit |->
            IF total_units > 0 /\ total_energy > 0
            THEN Some(Frac(total_energy, total_units)) ELSE None,
         total_cost |-> SumOver(table, S, [agg \in S |-> agg.total_cost]),
         tariff_rate |-> TariffRate,
         data_completeness |-> Frac(count * Percent, DaysInMonthOf(target_month)) ]

\* MonthlyAggregate.objects.filter(device=device, month=month)
MonthlyLookup(table, device, month) ==
    {r \in Rows(table) : r.device = device /\ r.month = month}

\* unique_together = ['device', 'month']
MonthlyUniqueOk(table, row) ==
    ~\E r \in Rows(table) : r.device = row.device /\ r.month = row.month

NewMonthly(device, month, defaults) ==
    Merge([device |-> device, month |-> month], defaults)

\* MonthlyAggregate.objects.update_or_create(device=device, month=month, defaults=...):
\* the table afterwards, or the table unchanged when the call raises
MonthlyUpdateOrCreate(table, device, month, defaults) ==
    LET found == MonthlyLookup(table, device, month)
        n == CountRows(table, found)
        new == NewMonthly(device, month, defaults)
    IN IF n > 1 THEN table
       ELSE IF n = 1
       THEN LET obj == CHOOSE r \in found : TRUE IN
            (table (-) SetToBag({obj})) (+) SetToBag({Merge(obj, defaults)})
       ELSE IF MonthlyUniqueOk(table, new) THEN table (+) SetToBag({new})
       ELSE table

\* does that update_or_create raise (MultipleObjectsReturned, IntegrityError)
MonthlyUpdateOrCreateRaises(table, device, month, defaults) ==
    LET found == MonthlyLookup(table, device, month)
        n == CountRows(table, found)
    IN n > 1 \/ (n = 0 /\ ~MonthlyUniqueOk(table, NewMonthly(device, month, defaults)))

\* the divisor of the fallback's "rough estimate" of the daily average
RoughDaysPerMonth == 30

RECURSIVE SumUnits(_)
\* sum(prod.units_produced for prod in production_records)
SumUnits(P) ==
    IF P = {} THEN 0
    ELSE LET p == CHOOSE x \in P : TRUE IN p.units_produced + SumUnits(P \ {p})

\* the defaults dict of _aggregate_monthly_from_influx from the parsed month query
MonthlyFromInfluxDefaults(device, target_month) ==
    LET next_month == ReplaceDay1(target_month + MonthStep)
        cells == ResponseCells(EnergyQuery(device, target_month, next_month))
        total_energy == TotalEnergy(cells)
        production_records ==
            {p \in ProductionRecords :
                p.device = device /\ p.date >= target_month /\ p.date < next_month}
        total_units == SumUnits(production_records)
    IN [ total_energy_kwh |-> total_energy,
         avg_daily_energy_kwh |-> Frac(total_energy, RoughDaysPerMonth),
         peak_power_kw |-> 0,
         component_breakdown |-> Breakdown(cells, EmptyDict),
         total_units_produced |-> Some(total_units),
         efficiency_kwh_per_unit |->
            IF total_units > 0 /\ total_energy > 0
            THEN Some(Frac(total_energy, total_units)) ELSE None,
         total_cost |-> total_energy * TariffRate,
         tariff_rate |-> TariffRate,
         data_completeness |-> Frac(Percent, 1) ]

\* mutant: the daily path is refused unless two daily rows exist
FromDailyReturnsNone_NeedsTwo(S) == Cardinality(S) < 2

\* if not daily_aggregates.exists(): return None
FromDailyReturnsNone(S) == S = {}

\* what is stored under (device, month) before the write
MonthlyPrior(table, device, target_month) ==
    LET found == MonthlyLookup(table, device, target_month) IN
    IF found = {} THEN "none"
    ELSE IF found = {NewMonthly(device, target_month,
                                MonthlyFromInfluxDefaults(device, target_month))}
         THEN "fallback"
    ELSE "row"

\* the body of aggregate_monthly_data's loop for one device: the roll-up of the
\* month's daily rows, and the direct query only when _aggregate_monthly_from_daily
\* returned None; the table afterwards and how the unit of work ended
MonthlyStep(dailies, table, device, target_month, query_ok) ==
    LET S == DailyOfMonth(dailies, device, target_month)
        from_daily == MonthlyFromDailyDefaults(dailies, S, target_month)
        from_influx == MonthlyFromInfluxDefaults(device, target_month)
    IN
    IF ~FromDailyReturnsNone(S)
    THEN IF MonthlyUpdateOrCreateRaises(table, device, target_month, from_daily)
         THEN [table |-> table, outcome |-> "error"]
         ELSE [table |-> MonthlyUpdateOrCreate(table, device, target_month, from_daily),
               outcome |-> "from_daily"]
    ELSE IF ~query_ok
    THEN [table |-> table, outcome |-> "query_failed"]
    ELSE IF MonthlyUpdateOrCreateRaises(table, device, target_month, from_influx)
         THEN [table |-> table, outcome |-> "error"]
         ELSE [table |-> MonthlyUpdateOrCreate(table, device, target_month, from_influx),
               outcome |-> "from_influx"]

\* aggregate_monthly_data(target_month, device): the loop over [device]
AggregateMonthly(device, month_arg, query_ok) ==
    LET target_month == ReplaceDay1(month_arg)
        step == MonthlyStep(daily, monthly, device, target_month, query_ok)
    IN
    /\ UNCHANGED <<daily, flux, frame, benchmarks, jobs, targets, modbus_devices>>
    /\ MonthlyLookup(monthly, device, target_month) = {} => MonthlyRoom(monthly)
    /\ monthly' = step.table
    /\ lastOp' = Op("aggregate_monthly", device, target_month, step.outcome,
                    MonthlyPrior(monthly, device, target_month))

-----------------------------------------------------------------------------
(* Management command aggregate_monthly_from_daily                         *)

\* month_end of Command.aggregate_month: the day before the first of the next month
CommandMonthEnd(month_start) == MonthStart(MonthOf(month_start) + 1) - 1

\* DailyAggregate.objects.filter(date__gte=month_start, date__lte=month_end, is_overtime=False)
CommandDailyAggs(table, month_start) ==
    {r \in Rows(table) :
        r.date >= month_start /\ r.date <= CommandMonthEnd(month_start)
        /\ r.is_overtime = FALSE}

\* the values the command computes for one device from its regular rows S
CommandDefaults(table, S, month_start) ==
    LET total_energy == SumOver(table, S, [agg \in S |-> agg.total_energy_kwh])
        count == CountRows(table, S)
        total_units == SumOver(table, S, [agg \in S |-> UnitsOf(agg)])
        expected_days == (CommandMonthEnd(month_start) - month_start) + 1
    IN [ total_energy_kwh |-> total_energy,
         avg_daily_energy_kwh |-> IF S # {} THEN Frac(total_energy, count) ELSE Frac(0, 1),
         peak_power_kw |-> MaxOver(S, [agg \in S |-> agg.peak_power_kw]),
         component_breakdown |-> SumBreakdowns(table, S, EmptyDict),
         total_units_produced |-> IF total_units > 0 THEN Some(total_units) ELSE None,
         efficiency_kwh_per_unit |->
            IF total_units > 0 THEN Some(Frac(total_energy, total_units)) ELSE None,
         total_cost |-> SumOver(table, S, [agg \in S |-> agg.total_cost]),
         data_completeness |->
            IF expected_days > 0 THEN Frac(count * Percent, expected_days)
            ELSE Frac(Percent, 1) ]

\* get_or_create(device, month, defaults incl. tariff_rate), then the field-by-field
\* update and save() of a row that existed
CommandUpsert(table, device, month_start, values) ==
    LET found == MonthlyLookup(table, device, month_start)
        new == NewMonthly(device, month_start, Merge([tariff_rate |-> TariffRate], values))
    IN IF found = {} THEN table (+) SetToBag({new})
       ELSE LET obj == CHOOSE r \in found : TRUE IN
            (table (-) SetToBag({obj})) (+) SetToBag({Merge(obj, values)})

RECURSIVE CommandLoop(_, _, _, _)
\* for device_id in devices: ... of Command.aggregate_month
CommandLoop(table, dailies, devices, month_start) ==
    IF devices = {} THEN table
    ELSE LET device == CHOOSE d \in devices : TRUE
             S == {r \in CommandDailyAggs(dailies, month_start) : r.device = device}
         IN CommandLoop(CommandUpsert(table, device, month_start,
                                      CommandDefaults(dailies, S, month_start)),
                        dailies, devices \ {device}, month_start)

\* Command.aggregate_month(month_date): every device with a regular row in the month
CommandAggregateMonth(month_date) ==
    LET month_start == ReplaceDay1(month_date)
        daily_aggs == CommandDailyAggs(daily, month_start)
        devices == {r.device : r \in daily_aggs}
    IN
    /\ UNCHANGED <<daily, flux, frame, benchmarks, jobs, targets, modbus_devices>>
    /\ BagCardinality(monthly)
            + Cardinality({d \in devices : MonthlyLookup(monthly, d, month_start) = {}})
         <= MaxMonthlyRows
    /\ IF daily_aggs = {}
       THEN /\ UNCHANGED monthly
            /\ lastOp' = Op("command_month", "-", month_start, "no_data", "none")
       ELSE /\ monthly' = CommandLoop(monthly, daily, devices, month_start)
            /\ lastOp' = Op("command_month", "-", month_start, "done", "none")

-----------------------------------------------------------------------------
(* The aggregate store as a state machine                                  *)

\* the (device, date) rows the overtime sheet of the imported workbook holds
OvertimeTargets == {<<"D1", Jan1>>}

\* the (device, month) units of work of the monthly job, the month given by any of
\* its dates
MonthTargets == {<<"D1", Jan31>>, <<"D1", Feb1>>, <<"D2", Jan31>>, <<"D2", Feb1>>}

\* the --month arguments of the management command
CommandMonths == {Jan31, Feb1}

NoFlux == [now |-> 0, start |-> 0, stop |-> 0, queries |-> <<>>, phase |-> "idle"]

\* no aggregation job in flight
NoJobs == <<>>

\* no Target stored
NoTargets == <<>>

\* no ModbusDevice stored
NoDevices == <<>>

NoFrame ==
    [phase |-> "idle", response |-> {}, rows |-> <<>>, delta |-> <<>>, hourly |-> {}, daily |-> {}]

Init ==
    /\ targets = NoTargets
    /\ modbus_devices = NoDevices
    /\ daily = EmptyBag
    /\ monthly = EmptyBag
    /\ lastOp = Op("init", "-", 0, "-", "none")
    /\ flux = NoFlux
    /\ frame = NoFrame
    /\ benchmarks = EmptyBag
    /\ jobs = NoJobs

Next ==
    \/ \E t \in Targets, query_ok \in BOOLEAN : AggregateDaily(t[1], t[2], query_ok)
    \/ \E t \in OvertimeTargets, u \in SheetDailyUnits : ImportOvertime(t[1], t[2], u)
    \/ \E t \in MonthTargets, query_ok \in BOOLEAN : AggregateMonthly(t[1], t[2], query_ok)
    \/ \E m \in CommandMonths : CommandAggregateMonth(m)

Spec == Init /\ [][Next]_vars


-----------------------------------------------------------------------------
(* The Celery tasks of reporting.tasks and the batch loops they run        *)

\* ModbusDevice.objects.filter(is_active=True), in the order the loop visits them
ActiveDevices == <<"D1", "D2">>

\* the ModbusDevice table: primary key -> device
Registry == [id \in {1, 2} |-> IF id = 1 THEN "D1" ELSE "D2"]

\* the device_id arguments a task is triggered with: none, a known id, an unknown id
TaskDeviceIds == {None, Some(1), Some(9)}

\* device = None; if device_id: try ModbusDevice.objects.get(id=device_id)
\* except DoesNotExist: logger.warning(...)
ResolveDevice(device_id) ==
    IF IsNone(device_id) THEN None
    ELSE IF Val(device_id) \in DOMAIN Registry THEN Some(Registry[Val(device_id)])
    ELSE None

\* devices = [device] if device else ModbusDevice.objects.filter(is_active=True)
DevicesToProcess(device) == IF ~IsNone(device) THEN <<Val(device)>> ELSE ActiveDevices

\* mutant: an exception of the unit of work leaves the loop
Escapes_Uncaught(outcome) == outcome = "error"

\* does an exception raised by the unit of work leave the loop: the loop body is
\* wrapped in try / except Exception, which logs and goes on
Escapes(outcome) == FALSE

\* outcomes after which the unit of work hands back an aggregate
Returned == {"created", "updated", "from_daily", "from_influx"}

\* the state of a batch before its first device
StartRun(table) == [table |-> table, outcomes |-> <<>>, aggregates |-> <<>>, raised |-> FALSE]

\* one iteration done: the table, the device's outcome, aggregates.append(aggregate)
Extend(run, device, step) ==
    [table |-> step.table,
     outcomes |-> Append(run.outcomes, [device |-> device, outcome |-> step.outcome]),
     aggregates |-> IF step.outcome \in Returned THEN Append(run.aggregates, device)
                    ELSE run.aggregates,
     raised |-> Escapes(step.outcome)]

RECURSIVE DailyLoop(_, _, _, _)
\* for device in devices: try: ... except Exception: logger.error(...)
DailyLoop(run, devices, date, failing) ==
    IF devices = <<>> \/ run.raised THEN run
    ELSE LET device == Head(devices)
             step == DailyStep(run.table, device, date, device \notin failing)
         IN DailyLoop(Extend(run, device, step), Tail(devices), date, failing)

RECURSIVE MonthlyLoop(_, _, _, _, _)
MonthlyLoop(run, dailies, devices, target_month, failing) ==
    IF devices = <<>> \/ run.raised THEN run
    ELSE LET device == Head(devices)
             step == MonthlyStep(dailies, run.table, device, target_month,
                                 device \notin failing)
         IN MonthlyLoop(Extend(run, device, step), dailies, Tail(devices),
                        target_month, failing)

\* the record of a task: its arguments, the devices whose query failed during it,
\* every processed device's outcome, the aggregates returned, and whether an
\* exception reached the caller
TaskOp(name, device_id, date, failing, run) ==
    [op |-> name, device_id |-> device_id, date |-> date, failing |-> failing,
     outcomes |-> run.outcomes, aggregates |-> run.aggregates, raised |-> run.raised]

\* reporting.tasks.aggregate_daily_data(target_date_str, device_id)
TaskAggregateDaily(date, device_id, failing) ==
    LET run == DailyLoop(StartRun(daily), DevicesToProcess(ResolveDevice(device_id)),
                         date, failing)
    IN /\ BagCardinality(run.table) <= MaxDailyRows
       /\ daily' = run.table
       /\ lastOp' = TaskOp("task_daily", device_id, date, failing, run)
       /\ UNCHANGED <<monthly, flux, frame, benchmarks, jobs, targets, modbus_devices>>

\* reporting.tasks.aggregate_monthly_data(target_month_str, device_id)
TaskAggregateMonthly(month_arg, device_id, failing) ==
    LET target_month == ReplaceDay1(month_arg)
        run == MonthlyLoop(StartRun(monthly), daily,
                           DevicesToProcess(ResolveDevice(device_id)),
                           target_month, failing)
    IN /\ BagCardinality(run.table) <= MaxMonthlyRows
       /\ monthly' = run.table
       /\ lastOp' = TaskOp("task_monthly", device_id, target_month, failing, run)
       /\ UNCHANGED <<daily, flux, frame, benchmarks, jobs, targets, modbus_devices>>

\* timezone.now().date() when the backfill runs
Today == Feb1 + 1

RECURSIVE BackfillLoop(_, _, _, _, _)
\* for i in range(1, days_back + 1): aggregate_daily_data(today - i, device)
BackfillLoop(run, devices, i, days_back, failing) ==
    IF i > days_back THEN run
    ELSE LET day == DailyLoop([run EXCEPT !.raised = FALSE], devices, Today - i, failing)
         IN BackfillLoop(day, devices, i + 1, days_back, failing)

\* the days_back arguments of the backfill
BackfillDays == {1}

\* reporting.tasks.backfill_daily_aggregates(days_back, device_id)
TaskBackfill(days_back, device_id, failing) ==
    LET run == BackfillLoop(StartRun(daily), DevicesToProcess(ResolveDevice(device_id)),
                            1, days_back, failing)
    IN /\ BagCardinality(run.table) <= MaxDailyRows
       /\ daily' = run.table
       /\ lastOp' = TaskOp("task_backfill", device_id, Today - days_back, failing, run)
       /\ UNCHANGED <<monthly, flux, frame, benchmarks, jobs, targets, modbus_devices>>

\* the dates and months the scheduled tasks are triggered for
TaskDates == {Jan1}

TaskMonths == {Jan31}

\* the devices whose query the time-series store fails during one task
FailingSets == {{}, {"D1"}}

NextTasks ==
    \/ \E date \in TaskDates, device_id \in TaskDeviceIds, failing \in FailingSets :
          TaskAggregateDaily(date, device_id, failing)
    \/ \E month \in TaskMonths, device_id \in TaskDeviceIds, failing \in FailingSets :
          TaskAggregateMonthly(month, device_id, failing)
    \/ \E days_back \in BackfillDays, device_id \in TaskDeviceIds, failing \in FailingSets :
          TaskBackfill(days_back, device_id, failing)
    \/ \E t \in OvertimeTargets, u \in SheetDailyUnits : ImportOvertime(t[1], t[2], u)

SpecTasks == Init /\ [][NextTasks]_vars

-----------------------------------------------------------------------------
(* Two aggregation jobs for the same key, run concurrently.                *)
(* update_or_create is get, then INSERT (on IntegrityError get again) or   *)
(* setattr + save; the steps of the two jobs interleave freely.            *)

JobIds == {1, 2}

\* the unit of work both jobs run
RaceDevice == "D1"

RaceDate == Jan1

\* a row left under the key by an earlier run over older source data
StaleDaily == NewDaily(RaceDevice, RaceDate, FALSE, ModelDefaults)

StaleMonthly ==
    NewMonthly(RaceDevice, RaceDate,
               [MonthlyFromInfluxDefaults(RaceDevice, RaceDate) EXCEPT !.total_energy_kwh = 0])

\* the daily row the monthly jobs roll up
SourceDaily ==
    NewDaily(RaceDevice, RaceDate, FALSE,
             Merge(ModelDefaults,
                   DailyDefaults(RaceDevice, RaceDate,
                                 EnergyQuery(RaceDevice, RaceDate, RaceDate + 1))))

\* a job that has not started
NewJob ==
    [pc |-> "start", defaults |-> None, obj |-> None, outcome |-> "-", retried |-> FALSE]

\* the table the jobs of a kind write
JobTable(kind) == IF kind = "daily" THEN daily ELSE monthly

\* the defaults a job computes from the source data
JobDefaults(kind) ==
    IF kind = "daily"
    THEN Merge(ModelDefaults,
               DailyDefaults(RaceDevice, RaceDate,
                             EnergyQuery(RaceDevice, RaceDate, RaceDate + 1)))
    ELSE LET S == DailyOfMonth(daily, RaceDevice, RaceDate) IN
         IF ~FromDailyReturnsNone(S) THEN MonthlyFromDailyDefaults(daily, S, RaceDate)
         ELSE MonthlyFromInfluxDefaults(RaceDevice, RaceDate)

\* self.get(**kwargs)
JobLookup(kind, table) ==
    IF kind = "daily" THEN DailyLookup(table, RaceDevice, RaceDate)
    ELSE MonthlyLookup(table, RaceDevice, RaceDate)

\* the row self.create(**params) inserts
JobNewRow(kind, defaults) ==
    IF kind = "daily" THEN NewDaily(RaceDevice, RaceDate, FALSE, defaults)
    ELSE NewMonthly(RaceDevice, RaceDate, defaults)

JobUniqueOk(kind, table, row) ==
    IF kind = "daily" THEN DailyUniqueOk(table, row) ELSE MonthlyUniqueOk(table, row)

\* for k, v in defaults: setattr(obj, k, v)
JobApply(kind, obj, defaults) ==
    IF kind = "daily" THEN ApplyDailyDefaults(obj, defaults) ELSE Merge(obj, defaults)

\* the stored rows save() overwrites: the row of obj (same primary key)
SameRow(kind, r, obj) ==
    IF kind = "daily"
    THEN r.device = obj.device /\ r.date = obj.date /\ r.is_overtime = obj.is_overtime
    ELSE r.device = obj.device /\ r.month = obj.month

\* the write of a job to the table of its kind
JobWrite(kind, table) ==
    /\ daily' = IF kind = "daily" THEN table ELSE daily
    /\ monthly' = IF kind = "daily" THEN monthly ELSE table

\* the job queries the source and builds the defaults dict
JobCompute(j) ==
    /\ jobs[j].pc = "start"
    /\ jobs' = [jobs EXCEPT ![j].pc = "get", ![j].defaults = Some(JobDefaults(lastOp.kind))]
    /\ UNCHANGED <<daily, monthly, lastOp, flux, frame, benchmarks, targets, modbus_devices>>

\* get_or_create: try self.get(**kwargs)
JobGet(j) ==
    LET found == JobLookup(lastOp.kind, JobTable(lastOp.kind)) IN
    /\ jobs[j].pc = "get"
    /\ jobs' = IF CountRows(JobTable(lastOp.kind), found) > 1
               THEN [jobs EXCEPT ![j].pc = "done", ![j].outcome = "error"]
               ELSE IF found # {}
               THEN [jobs EXCEPT ![j].pc = "save",
                                 ![j].obj = Some(CHOOSE r \in found : TRUE)]
               ELSE [jobs EXCEPT ![j].pc = "create"]
    /\ UNCHANGED <<daily, monthly, lastOp, flux, frame, benchmarks, targets, modbus_devices>>

\* except DoesNotExist: self.create(**params), the INSERT under the unique constraint
JobCreate(j) ==
    LET kind == lastOp.kind
        new == JobNewRow(kind, Val(jobs[j].defaults))
    IN /\ jobs[j].pc = "create"
       /\ IF JobUniqueOk(kind, JobTable(kind), new)
          THEN /\ JobWrite(kind, JobTable(kind) (+) SetToBag({new}))
               /\ jobs' = [jobs EXCEPT ![j].pc = "done", ![j].outcome = "created"]
          ELSE /\ UNCHANGED <<daily, monthly>>
               /\ jobs' = [jobs EXCEPT ![j].pc = "retry_get"]
       /\ UNCHANGED <<lastOp, flux, frame, benchmarks, targets, modbus_devices>>

\* except IntegrityError: try self.get(**kwargs), else re-raise
JobRetryGet(j) ==
    LET found == JobLookup(lastOp.kind, JobTable(lastOp.kind)) IN
    /\ jobs[j].pc = "retry_get"
    /\ jobs' = IF Cardinality(found) = 1 /\ CountRows(JobTable(lastOp.kind), found) = 1
               THEN [jobs EXCEPT ![j].pc = "save", ![j].retried = TRUE,
                                 ![j].obj = Some(CHOOSE r \in found : TRUE)]
               ELSE [jobs EXCEPT ![j].pc = "done", ![j].outcome = "error"]
    /\ UNCHANGED <<daily, monthly, lastOp, flux, frame, benchmarks, targets, modbus_devices>>

\* setattr(obj, k, v) for the defaults, obj.save()
JobSave(j) ==
    LET kind == lastOp.kind
        obj == Val(jobs[j].obj)
        table == JobTable(kind)
        stored == {r \in Rows(table) : SameRow(kind, r, obj)}
        saved == JobApply(kind, obj, Val(jobs[j].defaults))
    IN /\ jobs[j].pc = "save"
       /\ JobWrite(kind, (table (-) [r \in stored |-> CopiesIn(r, table)])
                            (+) SetToBag({saved}))
       /\ jobs' = [jobs EXCEPT ![j].pc = "done", ![j].outcome = "updated"]
       /\ UNCHANGED <<lastOp, flux, frame, benchmarks, targets, modbus_devices>>

\* two jobs of one kind for (RaceDevice, RaceDate); the key is free or holds a stale
\* row; the monthly jobs find the month's daily row or none
InitRace ==
    /\ targets = NoTargets
    /\ modbus_devices = NoDevices
    /\ flux = NoFlux
    /\ frame = NoFrame
    /\ benchmarks = EmptyBag
    /\ jobs = [j \in JobIds |-> NewJob]
    /\ \E kind \in {"daily", "monthly"}, stale \in BOOLEAN, source \in BOOLEAN :
          /\ lastOp = [op |-> "race", kind |-> kind, stale |-> stale]
          /\ daily = IF kind = "daily"
                     THEN (IF stale THEN SetToBag({StaleDaily}) ELSE EmptyBag)
                     ELSE (IF source THEN SetToBag({SourceDaily}) ELSE EmptyBag)
          /\ monthly = IF kind = "monthly" /\ stale THEN SetToBag({StaleMonthly})
                       ELSE EmptyBag

NextRace ==
    \E j \in JobIds :
        JobCompute(j) \/ JobGet(j) \/ JobCreate(j) \/ JobRetryGet(j) \/ JobSave(j)

SpecRace == InitRace /\ [][NextRace]_vars

-----------------------------------------------------------------------------
(* Benchmark calculation service (reporting.services.benchmark_service)    *)

FracLess(p, q) == p[1] * q[2] < q[1] * p[2]

FracAdd(p, q) == Frac(p[1] * q[2] + q[1] * p[2], p[2] * q[2])

\* p / n for an integer n > 0
FracOver(p, n) == Frac(p[1], p[2] * n)

\* end_date = timezone.now().date() of the benchmark calculations
BenchToday == Feb1 + 1

\* start_date = end_date - timedelta(days=days_back)
BenchStart(days_back) == BenchToday - days_back

\* .exclude(efficiency_kwh_per_unit__isnull=True).filter(efficiency_kwh_per_unit__gt=0)
HasEfficiency(r) ==
    ~IsNone(r.efficiency_kwh_per_unit) /\ Val(r.efficiency_kwh_per_unit)[1] > 0

\* if device: queryset = queryset.filter(device=device)
ForDevice(r, device) == IsNone(device) \/ r.device = Val(device)

\* the queryset of the daily calculations: date range, device, efficiency present
DailyQueryset(table, device, days_back) ==
    {r \in Rows(table) :
        /\ r.date >= BenchStart(days_back) /\ r.date <= BenchToday
        /\ ForDevice(r, device)
        /\ HasEfficiency(r)}

\* the queryset of _calculate_best_month
MonthlyQueryset(table, device, days_back) ==
    {r \in Rows(table) :
        /\ r.month >= ReplaceDay1(BenchStart(days_back))
        /\ r.month <= ReplaceDay1(BenchToday)
        /\ ForDevice(r, device)
        /\ HasEfficiency(r)}

\* what a calculation hands back: (value, period_start, period_end, days_used)
Calculated(value, period_start, period_end, days_used) ==
    [raised |-> FALSE, value |-> Some(value), period_start |-> period_start,
     period_end |-> period_end, days_used |-> days_used]

\* return None, None, None, 0
NothingCalculated ==
    [raised |-> FALSE, value |-> None, period_start |-> 0, period_end |-> 0,
     days_used |-> 0]

\* the calculation raised
CalculationRaised ==
    [raised |-> TRUE, value |-> None, period_start |-> 0, period_end |-> 0,
     days_used |-> 0]

\* the rows order_by('efficiency_kwh_per_unit') may put first: every row with the
\* least value, the order among equal values being left to the database
FirstByEfficiency(qs) ==
    {r \in qs : \A x \in qs :
        ~FracLess(Val(x.efficiency_kwh_per_unit), Val(r.efficiency_kwh_per_unit))}

\* _calculate_best_day: the results the call may give
CalculateBestDay(table, device, days_back) ==
    LET qs == DailyQueryset(table, device, days_back) IN
    IF qs = {} THEN {NothingCalculated}
    ELSE {Calculated(Val(best_day.efficiency_kwh_per_unit), best_day.date, best_day.date,
                     CountRows(table, qs)) : best_day \in FirstByEfficiency(qs)}

RECURSIVE DateDescending(_)
\* list(queryset.values_list('date', 'efficiency_kwh_per_unit')) under
\* Meta.ordering = ['-date']: the rows of distinct dates, latest date first
DateDescending(qs) ==
    IF qs = {} THEN <<>>
    ELSE LET r == CHOOSE x \in qs : \A y \in qs : y.date <= x.date
         IN <<r>> \o DateDescending(qs \ {r})

RECURSIVE SumEfficiency(_)
SumEfficiency(rows) ==
    IF rows = <<>> THEN Frac(0, 1)
    ELSE FracAdd(Val(Head(rows).efficiency_kwh_per_unit), SumEfficiency(Tail(rows)))

DaysPerWeek == 7

\* week_data = daily_values[i:i+7]; (week_avg, week_start, week_end)
WeekAverages(daily_values) ==
    [i \in 1..(IF Len(daily_values) >= DaysPerWeek
               THEN Len(daily_values) - (DaysPerWeek - 1) ELSE 0) |->
        LET week_data == SubSeq(daily_values, i, i + DaysPerWeek - 1) IN
        [week_avg |-> FracOver(SumEfficiency(week_data), Len(week_data)),
         week_start |-> week_data[1].date,
         week_end |-> week_data[Len(week_data)].date]]

\* min(week_averages, key=lambda x: x[0]): the first of the least averages
MinWeek(week_averages) ==
    week_averages[CHOOSE i \in 1..Len(week_averages) :
        /\ \A j \in 1..Len(week_averages) :
              ~FracLess(week_averages[j].week_avg, week_averages[i].week_avg)
        /\ \A j \in 1..(i - 1) :
              FracLess(week_averages[i].week_avg, week_averages[j].week_avg)]

\* _calculate_best_week
CalculateBestWeek(table, device, days_back) ==
    LET qs == DailyQueryset(table, device, days_back)
        daily_values == DateDescending(qs)
        week_averages == WeekAverages(daily_values)
    IN IF qs = {} \/ week_averages = <<>> THEN {NothingCalculated}
       ELSE LET best_week == MinWeek(week_averages) IN
            {Calculated(best_week.week_avg, best_week.week_start, best_week.week_end,
                        Len(daily_values))}

\* _calculate_best_month: with a qualifying month the returned tuple evaluates
\* timedelta(days=32).replace(day=1), which raises AttributeError
CalculateBestMonth(table, device, days_back) ==
    IF MonthlyQueryset(table, device, days_back) = {} THEN {NothingCalculated}
    ELSE {CalculationRaised}

RECURSIVE SumEfficiencyOver(_, _)
SumEfficiencyOver(table, qs) ==
    IF qs = {} THEN Frac(0, 1)
    ELSE LET r == CHOOSE x \in qs : TRUE IN
         FracAdd(Frac(CopiesIn(r, table) * Val(r.efficiency_kwh_per_unit)[1],
                      Val(r.efficiency_kwh_per_unit)[2]),
                 SumEfficiencyOver(table, qs \ {r}))

\* _calculate_average: queryset.aggregate(avg=Avg('efficiency_kwh_per_unit'))
CalculateAverage(table, device, days_back) ==
    LET qs == DailyQueryset(table, device, days_back) IN
    IF qs = {} THEN {NothingCalculated}
    ELSE {Calculated(FracOver(SumEfficiencyOver(table, qs), CountRows(table, qs)),
                     BenchStart(days_back), BenchToday, CountRows(table, qs))}

RECURSIVE SortedValues(_)
\* values.sort() of the efficiency values of distinct rows
SortedValues(qs) ==
    IF qs = {} THEN <<>>
    ELSE LET r == CHOOSE x \in qs : \A y \in qs :
                     ~FracLess(Val(y.efficiency_kwh_per_unit), Val(x.efficiency_kwh_per_unit))
         IN <<Val(r.efficiency_kwh_per_unit)>> \o SortedValues(qs \ {r})

\* mutant: the upper of the two middle values for an even count
MedianOf_Upper(values) == values[(Len(values) \div 2) + 1]

\* the median of the sorted list (list index k is position k + 1)
MedianOf(values) ==
    LET n == Len(values) IN
    IF n % 2 = 0 THEN FracOver(FracAdd(values[n \div 2], values[(n \div 2) + 1]), 2)
    ELSE values[(n \div 2) + 1]

\* _calculate_median
CalculateMedian(table, device, days_back) ==
    LET values == SortedValues(DailyQueryset(table, device, days_back)) IN
    IF values = <<>> THEN {NothingCalculated}
    ELSE {Calculated(MedianOf(values), BenchStart(days_back), BenchToday, Len(values))}

\* the calculation calculate_benchmark dispatches to; an unknown type gives None
Calculate(benchmark_type, dailies, monthlies, device, days_back) ==
    CASE benchmark_type = "best_day" -> CalculateBestDay(dailies, device, days_back)
      [] benchmark_type = "best_week" -> CalculateBestWeek(dailies, device, days_back)
      [] benchmark_type = "best_month" -> CalculateBestMonth(monthlies, device, days_back)
      [] benchmark_type = "average" -> CalculateAverage(dailies, device, days_back)
      [] benchmark_type = "median" -> CalculateMedian(dailies, device, days_back)
      [] OTHER -> {NothingCalculated}

\* bound of the model: the EfficiencyBenchmark rows single calls may create
MaxBenchmarks == 2

BenchmarkRoom(table) == BagCardinality(table) < MaxBenchmarks

\* EfficiencyBenchmark.objects.filter(device=device, benchmark_type=..., metric_name=...)
BenchmarkLookup(table, device, benchmark_type, metric_name) ==
    {b \in Rows(table) : b.device = device /\ b.benchmark_type = benchmark_type
                         /\ b.metric_name = metric_name}

\* the defaults of calculate_benchmark's update_or_create
BenchmarkDefaults(res) ==
    [benchmark_value |-> Val(res.value), period_start |-> res.period_start,
     period_end |-> res.period_end, calculated_from_days |-> res.days_used,
     is_active |-> TRUE]

NewBenchmark(device, benchmark_type, metric_name, defaults) ==
    Merge([device |-> device, benchmark_type |-> benchmark_type,
           metric_name |-> metric_name], defaults)

\* how a call of calculate_benchmark ended
BenchmarkOutcome(table, outcome, returned) ==
    [table |-> table, outcome |-> outcome, returned |-> returned]

\* if not force_recalculate: hand back the stored active benchmark, if any
SkipExisting(force_recalculate) == ~force_recalculate

\* calculate_benchmark(device, metric_name, benchmark_type, days_back, force_recalculate):
\* the ways the call may end, each with the EfficiencyBenchmark table afterwards
BenchmarkStep(table, dailies, monthlies, device, metric_name, benchmark_type, days_back, force_recalculate) ==
    LET found == BenchmarkLookup(table, device, benchmark_type, metric_name)
        existing == {b \in found : b.is_active}
        Store(res) ==
            IF res.raised THEN BenchmarkOutcome(table, "raised", None)
            ELSE IF IsNone(res.value) THEN BenchmarkOutcome(table, "none", None)
            ELSE LET defaults == BenchmarkDefaults(res)
                     new == NewBenchmark(device, benchmark_type, metric_name, defaults)
                 IN IF found = {}
                    THEN BenchmarkOutcome(table (+) SetToBag({new}), "created", Some(new))
                    ELSE LET obj == CHOOSE b \in found : TRUE IN
                         BenchmarkOutcome((table (-) SetToBag({obj}))
                                              (+) SetToBag({Merge(obj, defaults)}),
                                          "updated", Some(Merge(obj, defaults)))
    IN IF SkipExisting(force_recalculate) /\ existing # {}
       THEN {BenchmarkOutcome(table, "existing", Some(CHOOSE b \in existing : TRUE))}
       ELSE {Store(res) :
                res \in Calculate(benchmark_type, dailies, monthlies, device, days_back)}

\* metric_names and benchmark_types of calculate_all_benchmarks
AllMetricNames == <<"kwh_per_garment", "kwh_per_unit">>

AllBenchmarkTypes == <<"best_day", "best_week", "best_month", "average">>

\* the calls of calculate_all_benchmarks in order: overall first, then each device,
\* for every metric and every type
AllCalls(devices) ==
    LET scopes == <<None>> \o [i \in 1..Len(devices) |-> Some(devices[i])]
        M == Len(AllMetricNames)
        T == Len(AllBenchmarkTypes)
    IN [k \in 1..(Len(scopes) * M * T) |->
           [device |-> scopes[((k - 1) \div (M * T)) + 1],
            metric_name |-> AllMetricNames[(((k - 1) \div T) % M) + 1],
            benchmark_type |-> AllBenchmarkTypes[((k - 1) % T) + 1]]]

RECURSIVE CalculateAll(_, _, _, _, _)
\* the loops of calculate_all_benchmarks: each call in its own try/except, none with
\* force_recalculate; the tables the run may leave
CalculateAll(table, dailies, monthlies, calls, days_back) ==
    IF calls = <<>> THEN {table}
    ELSE UNION {CalculateAll(o.table, dailies, monthlies, Tail(calls), days_back) :
                   o \in BenchmarkStep(table, dailies, monthlies, Head(calls).device,
                                       Head(calls).metric_name, Head(calls).benchmark_type,
                                       days_back, FALSE)}

\* days_back of the benchmark calls
BenchDaysBack == {8, 20}

\* the scopes single benchmark calls are made for
BenchScopes == {Some("D1")}

BenchTypes == {"best_day", "best_week", "best_month", "average", "median"}

\* the record of a benchmark call
BenchOp(name, device, benchmark_type, days_back, force_recalculate, outcome, returned) ==
    [op |-> name, device |-> device, benchmark_type |-> benchmark_type,
     days_back |-> days_back, force_recalculate |-> force_recalculate,
     outcome |-> outcome, returned |-> returned]

\* BenchmarkService.calculate_benchmark called once
CalculateBenchmark(device, benchmark_type, days_back, force_recalculate) ==
    \E o \in BenchmarkStep(benchmarks, daily, monthly, device, "kwh_per_unit",
                           benchmark_type, days_back, force_recalculate) :
        /\ o.outcome = "created" => BenchmarkRoom(benchmarks)
        /\ benchmarks' = o.table
        /\ lastOp' = BenchOp("calculate_benchmark", device, benchmark_type, days_back,
                             force_recalculate, o.outcome, o.returned)
        /\ UNCHANGED <<daily, monthly, flux, frame, jobs, targets, modbus_devices>>

\* days_back of the scheduled task
TaskDaysBack == 20

\* the task calculate_benchmarks(device_id): the device when it is found, else all
\* active devices; then calculate_all_benchmarks
TaskCalculateBenchmarks(device_id) ==
    \E table \in CalculateAll(benchmarks, daily, monthly,
                              AllCalls(DevicesToProcess(ResolveDevice(device_id))),
                              TaskDaysBack) :
        /\ benchmarks' = table
        /\ lastOp' = BenchOp("calculate_benchmarks", device_id, "-", TaskDaysBack, FALSE,
                             "done", None)
        /\ UNCHANGED <<daily, monthly, flux, frame, jobs, targets, modbus_devices>>

\* a DailyAggregate as the aggregation stores it: energy, units and their quotient
BenchDaily(device, date, energy, units) ==
    NewDaily(device, date, FALSE,
             Merge(ModelDefaults,
                   [total_energy_kwh |-> energy,
                    units_produced |-> IF units > 0 THEN Some(units) ELSE None,
                    efficiency_kwh_per_unit |->
                        IF units > 0 THEN Some(Frac(energy, units)) ELSE None]))

\* the day whose aggregate arrives while benchmarks are stored, and its energies
ArrivingDate == BenchToday

ArrivingEnergies == {2}

\* the daily aggregation stores the aggregate of a new day of device D1
StoreArrivingDay(energy) ==
    /\ DailyLookup(daily, "D1", ArrivingDate) = {}
    /\ daily' = daily (+) SetToBag({BenchDaily("D1", ArrivingDate, energy, 1)})
    /\ lastOp' = BenchOp("aggregate_daily", Some("D1"), "-", 0, FALSE, "created", None)
    /\ UNCHANGED <<monthly, benchmarks, flux, frame, jobs, targets, modbus_devices>>

\* the stored daily aggregates the benchmark runs start from: <<device, date, energy,
\* units>>, units 0 standing for a day without production data
BenchScenarios ==
    { <<>>,
      << <<"D1", 25, 5, 0>>, <<"D1", 26, 0, 1>> >>,
      << <<"D1", 14, 4, 1>>, <<"D1", 20, 6, 1>> >>,
      << <<"D1", 12, 2, 1>>, <<"D1", 25, 5, 1>>, <<"D1", 26, 3, 1>>, <<"D1", 27, 3, 1>>,
         <<"D2", 28, 1, 1>> >>,
      << <<"D1", 25, 5, 1>>, <<"D1", 26, 3, 1>>, <<"D1", 27, 4, 1>>, <<"D1", 28, 7, 1>>,
         <<"D1", 29, 6, 1>>, <<"D1", 30, 4, 1>>, <<"D1", 31, 9, 2>> >> }

BenchDailyTable(scenario) ==
    SetToBag({BenchDaily(scenario[i][1], scenario[i][2], scenario[i][3], scenario[i][4]) :
                 i \in 1..Len(scenario)})

InitBench ==
    /\ targets = NoTargets
    /\ modbus_devices = NoDevices
    /\ \E scenario \in BenchScenarios :
          /\ daily = BenchDailyTable(scenario)
          /\ \E rolled_up \in BOOLEAN :
                monthly = IF rolled_up
                          THEN MonthlyStep(daily, EmptyBag, "D1", Jan1, TRUE).table
                          ELSE EmptyBag
    /\ benchmarks = EmptyBag
    /\ lastOp = BenchOp("init", None, "-", 0, FALSE, "-", None)
    /\ flux = NoFlux
    /\ frame = NoFrame
    /\ jobs = NoJobs

NextBench ==
    \/ \E device \in BenchScopes, benchmark_type \in BenchTypes,
          days_back \in BenchDaysBack, force_recalculate \in BOOLEAN :
          CalculateBenchmark(device, benchmark_type, days_back, force_recalculate)
    \/ \E device_id \in {None, Some(1)} : TaskCalculateBenchmarks(device_id)
    \/ \E energy \in ArrivingEnergies : StoreArrivingDay(energy)

SpecBench == InitBench /\ [][NextBench]_vars

-----------------------------------------------------------------------------
(* Target tracking service (reporting.services.target_service)             *)

\* n / d for d > 0 and an n of either sign, in lowest terms
Ratio(n, d) == IF n < 0 THEN <<0 - Frac(0 - n, d)[1], Frac(0 - n, d)[2]>> ELSE Frac(n, d)

FracTimes(p, q) == Ratio(p[1] * q[1], p[2] * q[2])

FracPlus(p, q) == Ratio(p[1] * q[2] + q[1] * p[2], p[2] * q[2])

\* p <= q
FracLeq(p, q) == ~FracLess(q, p)

N_kwh_per_garment ==
    <<"k", "w", "h", "_", "p", "e", "r", "_", "g", "a", "r", "m", "e", "n", "t">>

N_kwh_per_unit ==
    <<"k", "w", "h", "_", "p", "e", "r", "_", "u", "n", "i", "t">>

N_total_energy ==
    <<"t", "o", "t", "a", "l", "_", "e", "n", "e", "r", "g", "y">>

N_kwh ==
    <<"k", "w", "h">>

N_total_energy_kwh ==
    <<"t", "o", "t", "a", "l", "_", "e", "n", "e", "r", "g", "y", "_", "k", "w", "h">>

\* 'kwh_per_garment' in target.metric_name or 'kwh_per_unit' in target.metric_name
IsEfficiencyMetric(metric_name) ==
    Contains(metric_name, N_kwh_per_garment) \/ Contains(metric_name, N_kwh_per_unit)

\* min(today, target.period_end)
Until(target, today) == IF today < target.period_end THEN today ELSE target.period_end

\* the queryset of _calculate_monthly_progress
ProgressQueryset(table, target, today) ==
    {r \in Rows(table) :
        /\ r.date >= target.period_start /\ r.date <= Until(target, today)
        /\ ForDevice(r, target.device)}

RECURSIVE SumEnergy(_, _)
\* sum(agg.total_energy_kwh for agg in daily_aggregates)
SumEnergy(table, qs) ==
    IF qs = {} THEN 0
    ELSE LET r == CHOOSE x \in qs : TRUE IN
         CopiesIn(r, table) * r.total_energy_kwh + SumEnergy(table, qs \ {r})

\* _calculate_monthly_progress (and _calculate_weekly_progress for these metrics)
CalculateProgress(table, target, today) ==
    LET daily_aggregates == ProgressQueryset(table, target, today)
        with_efficiency == {r \in daily_aggregates : ~IsNone(r.efficiency_kwh_per_unit)}
    IN IF IsEfficiencyMetric(target.metric_name)
       THEN IF with_efficiency # {}
            THEN FracOver(SumEfficiencyOver(table, with_efficiency),
                          CountRows(table, with_efficiency))
            ELSE Frac(0, 1)
       ELSE IF Contains(target.metric_name, N_total_energy) \/ Contains(target.metric_name, N_kwh)
       THEN Frac(SumEnergy(table, daily_aggregates), 1)
       ELSE Frac(0, 1)

\* period_days = (target.period_end - target.period_start).days + 1
PeriodDays(target) == (target.period_end - target.period_start) + 1

\* days_elapsed = (min(today, target.period_end) - target.period_start).days + 1
DaysElapsed(target, today) == (Until(target, today) - target.period_start) + 1

DaysRemaining(target, today) == PeriodDays(target) - DaysElapsed(target, today)

\* the days the trend looks back: week_ago = today - timedelta(days=7)
TrendDays == 7

\* the trend takes at least this many aggregates
TrendMinCount == 3

\* the daily totals averaged at each end of the window
TrendSpan == 3

\* the window holds two disjoint spans from this many totals on
TrendFullCount == 6

\* the factor 1.1 of "within 10%" and "10% improvement"
TenPercentMore == Frac(11, 10)

\* DailyAggregate.objects.filter(date__gte=week_ago, date__lte=today) of the device
RecentAggregates(table, target, today) ==
    {r \in Rows(table) :
        /\ r.date >= today - TrendDays /\ r.date <= today
        /\ ForDevice(r, target.device)}

\* values = sorted([...]); trend_improving = values[-1] < values[0]
TrendImproving(values) == FracLess(values[Len(values)], values[1])

RECURSIVE DateAscending(_)
\* recent_aggregates.order_by('date'), for rows of distinct dates
DateAscending(qs) ==
    IF qs = {} THEN <<>>
    ELSE LET r == CHOOSE x \in qs : \A y \in qs : x.date <= y.date
         IN <<r>> \o DateAscending(qs \ {r})

RECURSIVE SumTotals(_)
SumTotals(rows) ==
    IF rows = <<>> THEN 0 ELSE Head(rows).total_energy_kwh + SumTotals(Tail(rows))

\* mutant: the early average is always taken over the first three totals
EarlierAvg_FirstThree(daily_totals) ==
    Frac(SumTotals(SubSeq(daily_totals, 1, TrendSpan)), TrendSpan)

\* sum(daily_totals[:3]) / 3 if len(daily_totals) >= 6 else daily_totals[0]
EarlierAvg(daily_totals) ==
    IF Len(daily_totals) >= TrendFullCount
    THEN Frac(SumTotals(SubSeq(daily_totals, 1, TrendSpan)), TrendSpan)
    ELSE Frac(daily_totals[1].total_energy_kwh, 1)

\* recent_avg = sum(daily_totals[-3:]) / 3
RecentAvg(daily_totals) ==
    Frac(SumTotals(SubSeq(daily_totals, Len(daily_totals) - (TrendSpan - 1),
                          Len(daily_totals))), TrendSpan)

\* the efficiency branch of _calculate_on_track while the period runs
EfficiencyOnTrack(table, target, current_value, today) ==
    LET recent_aggregates ==
            {r \in RecentAggregates(table, target, today) :
                ~IsNone(r.efficiency_kwh_per_unit)}
        values == SortedValues(recent_aggregates)
    IN IF FracLeq(current_value, target.target_value) THEN TRUE
       ELSE /\ CountRows(table, recent_aggregates) >= TrendMinCount
            /\ TrendImproving(values)
            /\ FracLeq(current_value, FracTimes(target.target_value, TenPercentMore))

\* the total-metric branch of _calculate_on_track while the period runs
VolumeOnTrack(table, target, current_value, today) ==
    LET expected_value ==
            FracTimes(target.target_value,
                      Ratio(DaysElapsed(target, today), PeriodDays(target)))
        recent_aggregates == RecentAggregates(table, target, today)
        daily_totals == DateAscending(recent_aggregates)
    IN IF FracLeq(expected_value, current_value) THEN TRUE
       ELSE /\ CountRows(table, recent_aggregates) >= TrendMinCount
            /\ Len(daily_totals) >= TrendSpan
            /\ FracLess(FracTimes(EarlierAvg(daily_totals), TenPercentMore),
                        RecentAvg(daily_totals))
            /\ FracLeq(target.target_value,
                       FracPlus(current_value,
                                FracTimes(RecentAvg(daily_totals),
                                          Ratio(DaysRemaining(target, today), 1))))

\* if days_remaining <= 0
PeriodEnded(target, today) == DaysRemaining(target, today) <= 0

\* _calculate_on_track(target, current_value, today)
CalculateOnTrack(table, target, current_value, today) ==
    IF PeriodEnded(target, today)
    THEN IF IsEfficiencyMetric(target.metric_name)
         THEN FracLeq(current_value, target.target_value)
         ELSE FracLeq(target.target_value, current_value)
    ELSE IF IsEfficiencyMetric(target.metric_name)
         THEN EfficiencyOnTrack(table, target, current_value, today)
         ELSE VolumeOnTrack(table, target, current_value, today)

\* the id of the stored Target
TargetId == 1

\* the tracker is not running
TrackerIdle == [pc |-> "idle", today |-> 0, loaded |-> None]

\* Target.objects.filter(period_start__lte=today, period_end__gte=today)
ActiveTargets(table, today) ==
    {id \in DOMAIN table : table[id].period_start <= today /\ table[id].period_end >= today}

\* the task update_target_progress(target_id) up to the point where the Target
\* instances are in memory: Target.objects.get(id=target_id), or the active targets
TrackerLoad(target_id, today) ==
    /\ jobs.pc = "idle"
    /\ jobs' = [pc |-> "loaded", today |-> today,
                loaded |-> IF ~IsNone(target_id) \/ TargetId \in ActiveTargets(targets, today)
                           THEN Some(targets[TargetId]) ELSE None]
    /\ UNCHANGED <<daily, monthly, lastOp, flux, frame, benchmarks, targets, modbus_devices>>

\* target.current_value = ...; target.is_on_track = ...; target.save(): every field of
\* the instance in memory is written
SavedTarget(target, current_value, is_on_track) ==
    [target EXCEPT !.current_value = current_value, !.is_on_track = is_on_track]

\* the record of a tracker run
TrackerOp(today, target, updated) ==
    [op |-> "update_target_progress", today |-> today, updated |-> updated,
     days_elapsed |-> DaysElapsed(target, today),
     days_remaining |-> DaysRemaining(target, today)]

\* _update_single_target for the loaded target
TrackerUpdate ==
    /\ jobs.pc = "loaded"
    /\ jobs' = TrackerIdle
    /\ IF IsNone(jobs.loaded)
       THEN /\ targets' = targets
            /\ lastOp' = TrackerOp(jobs.today, targets[TargetId], FALSE)
       ELSE LET target == Val(jobs.loaded)
                current_value == CalculateProgress(daily, target, jobs.today)
                is_on_track == CalculateOnTrack(daily, target, current_value, jobs.today)
            IN /\ targets' = [targets EXCEPT
                                 ![TargetId] = SavedTarget(target, current_value, is_on_track)]
               /\ lastOp' = TrackerOp(jobs.today, target, TRUE)
    /\ UNCHANGED <<daily, monthly, flux, frame, benchmarks, modbus_devices>>

\* PATCH /targets/{id}/ of TargetViewSet with a new target_value
PatchTarget(target_value) ==
    /\ targets[TargetId].target_value # target_value
    /\ targets' = [targets EXCEPT ![TargetId].target_value = target_value]
    /\ lastOp' = [op |-> "patch_target", today |-> 0, updated |-> TRUE,
                  days_elapsed |-> 0, days_remaining |-> 0]
    /\ UNCHANGED <<daily, monthly, flux, frame, benchmarks, jobs, modbus_devices>>

\* the period of the stored target: February
TargetPeriodStart == Feb1

TargetPeriodEnd == MonthEnd(Feb1)

\* a Target as create_target_from_benchmark stores it
NewTarget(device, metric_name, target_value) ==
    [device |-> device, metric_name |-> metric_name, target_period |-> "monthly",
     period_start |-> TargetPeriodStart, period_end |-> TargetPeriodEnd,
     target_value |-> target_value, current_value |-> Frac(0, 1),
     is_on_track |-> TRUE, benchmark_used |-> None]

\* the metric and target_value of the stored target
TargetChoices ==
    { <<N_kwh_per_unit, Frac(10, 1)>>, <<N_kwh_per_unit, Frac(12, 1)>>,
      <<N_total_energy_kwh, Frac(200, 1)>>, <<N_total_energy_kwh, Frac(60, 1)>> }

\* the values a PATCH sets
PatchValues == {Frac(10, 1), Frac(200, 1)}

\* the days the tracker runs on: before the period, while it runs, on its last day
\* and after it
TodayChoices == {Jan31 - 1, Feb1 + 6, TargetPeriodEnd, TargetPeriodEnd + 2}

\* the days of the stored aggregates and their energies (0: no aggregate that day);
\* one unit is produced each day, so the efficiency equals the energy
TrendDates == <<Feb1 + 3, Feb1 + 4, Feb1 + 5, Feb1 + 6>>

TrendEnergies == {0, 10, 12}

\* three more aggregates at the start of the window
EarlyDates == {Jan31, Feb1, Feb1 + 1}

EarlyEnergy == 10

TargetDailyTable(energies, early) ==
    SetToBag({BenchDaily("D1", TrendDates[i], energies[i], 1) :
                 i \in {k \in 1..Len(TrendDates) : energies[k] > 0}}
             \cup (IF early THEN {BenchDaily("D1", d, EarlyEnergy, 1) : d \in EarlyDates}
                   ELSE {}))

InitTargets ==
    /\ \E energies \in [1..Len(TrendDates) -> TrendEnergies], early \in BOOLEAN :
          daily = TargetDailyTable(energies, early)
    /\ \E choice \in TargetChoices :
          targets = [id \in {TargetId} |-> NewTarget(Some("D1"), choice[1], choice[2])]
    /\ monthly = EmptyBag
    /\ benchmarks = EmptyBag
    /\ lastOp = [op |-> "init", today |-> 0, updated |-> FALSE, days_elapsed |-> 0,
                 days_remaining |-> 0]
    /\ flux = NoFlux
    /\ frame = NoFrame
    /\ jobs = TrackerIdle
    /\ modbus_devices = NoDevices

NextTargets ==
    \/ \E target_id \in {None, Some(TargetId)}, today \in TodayChoices :
          TrackerLoad(target_id, today)
    \/ TrackerUpdate
    \/ \E target_value \in PatchValues : PatchTarget(target_value)

SpecTargets == InitTargets /\ [][NextTargets]_vars

-----------------------------------------------------------------------------
(* Tiered Flux query builder (analytics.energy_service), time in days      *)

\* bound of the model: start and stop range over 0..MaxTime
MaxTime == 219

\* how far before MaxTime the clock of a call may stand
NowChoices == {MaxTime - 2}

RawDays == 5

OneMinuteDays == 35

FiveMinuteDays == 215

Min2(a, b) == IF a <= b THEN a ELSE b

Max2(a, b) == IF a >= b THEN a ELSE b

\* raw_stop = min(stop, now)
RawStop(stop, now) == Min2(stop, now)

\* mutant: the 1-minute tier is read up to stop, not clipped at the 5-day cutoff
OneMinuteStop_Unclipped(stop, cutoff_5d) == stop

\* meas_1m_stop = min(stop, cutoff_5d)
OneMinuteStop(stop, cutoff_5d) == Min2(stop, cutoff_5d)

Query(measurement, start, stop, window) ==
    [measurement |-> measurement, start |-> start, stop |-> stop, window |-> window]

\* measurement_queries of _build_flux_query: the sub-queries in the order appended
BuildFluxQuery(now, start, stop) ==
    LET cutoff_5d == now - RawDays
        cutoff_35d == now - OneMinuteDays
        cutoff_215d == now - FiveMinuteDays
        raw ==
            IF stop > cutoff_5d /\ Max2(start, cutoff_5d) < RawStop(stop, now)
            THEN << Query("raw", Max2(start, cutoff_5d), RawStop(stop, now), TRUE) >>
            ELSE <<>>
        one_minute ==
            IF start < cutoff_5d
               /\ Max2(start, cutoff_35d) < OneMinuteStop(stop, cutoff_5d)
            THEN << Query("1m", Max2(start, cutoff_35d),
                          OneMinuteStop(stop, cutoff_5d), FALSE) >>
            ELSE <<>>
        five_minute ==
            IF start < cutoff_35d /\ Max2(start, cutoff_215d) < Min2(stop, cutoff_35d)
            THEN << Query("5m", Max2(start, cutoff_215d), Min2(stop, cutoff_35d), FALSE) >>
            ELSE <<>>
        one_hour ==
            IF start < cutoff_215d
            THEN << Query("1h", start, Min2(stop, cutoff_215d), FALSE) >>
            ELSE <<>>
        measurement_queries == raw \o one_minute \o five_minute \o one_hour
    IN IF measurement_queries = <<>>
       THEN << Query("raw", start, stop, FALSE) >>
       ELSE measurement_queries

\* a call of run_energy_analytics that has been made and not yet served
Request(now, start, stop) ==
    [now |-> now, start |-> start, stop |-> stop, queries |-> <<>>, phase |-> "requested"]

\* mutant: only a start after the end is refused
InvalidRange_Strict(start_dt, end_dt) == start_dt > end_dt

\* if start_dt >= end_dt: raise EnergyAnalyticsError("Start time must be before end time.")
InvalidRange(start_dt, end_dt) == start_dt >= end_dt

\* run_energy_analytics up to the query it builds: start >= end raises
\* EnergyAnalyticsError before _build_flux_query is called
RunEnergyAnalytics ==
    /\ flux.phase = "requested"
    /\ flux' = IF InvalidRange(flux.start, flux.stop)
               THEN [flux EXCEPT !.phase = "rejected"]
               ELSE [flux EXCEPT !.phase = "built",
                                 !.queries = BuildFluxQuery(flux.now, flux.start, flux.stop)]
    /\ UNCHANGED <<daily, monthly, lastOp, frame, benchmarks, jobs, targets, modbus_devices>>

InitFlux ==
    /\ targets = NoTargets
    /\ modbus_devices = NoDevices
    /\ daily = EmptyBag
    /\ monthly = EmptyBag
    /\ lastOp = Op("init", "-", 0, "-", "none")
    /\ frame = NoFrame
    /\ benchmarks = EmptyBag
    /\ jobs = NoJobs
    /\ \E now \in NowChoices, start \in 0..MaxTime, stop \in 0..MaxTime :
          flux = Request(now, start, stop)

\* the rest of run_energy_analytics: the built query is sent with _fetch_energy_data
\* and either a result is returned or InfluxDBError is re-raised as EnergyAnalyticsError
SendFluxQuery ==
    /\ flux.phase = "built"
    /\ \E outcome \in {"returned", "failed"} : flux' = [flux EXCEPT !.phase = outcome]
    /\ UNCHANGED <<daily, monthly, lastOp, frame, benchmarks, jobs, targets, modbus_devices>>

NextFlux == RunEnergyAnalytics \/ SendFluxQuery

SpecFlux == InitFlux /\ [][NextFlux]_vars

-----------------------------------------------------------------------------
(* Counter-to-delta reducer (analytics.energy_service), time in minutes    *)

MinutesPerHour == 60

\* the device tags of the stored samples, in the order sort_values puts them
DeviceIds == <<"A", "B">>

\* the times a device may have a sample at, and the counter values it may show:
\* device A up to four samples (two in one hour, one after an empty hour, one on
\* the next day), device B up to two, and up to one sample without a device tag
SampleTimes(device_id) ==
    IF device_id = Some("A") THEN {10, 50, 200, 1450}
    ELSE IF device_id = Some("B") THEN {50, 200}
    ELSE {200}

SampleValues == {0, 2, 5}

SampleKeys ==
    {<<d, t>> : d \in {Some("A")}, t \in SampleTimes(Some("A"))}
    \cup {<<d, t>> : d \in {Some("B")}, t \in SampleTimes(Some("B"))}
    \cup {<<d, t>> : d \in {None}, t \in SampleTimes(None)}

\* the responses of the store: at most one sample per device tag and time
Responses ==
    { {[device_id |-> k[1], time |-> k[2], value |-> v[k]] : k \in keys} :
        keys \in SUBSET SampleKeys, v \in [SampleKeys -> SampleValues] }

\* position of a device tag in the sort order; a missing tag (NA) sorts last
DeviceRank(device_id) ==
    IF IsNone(device_id) THEN Len(DeviceIds) + 1
    ELSE CHOOSE i \in 1..Len(DeviceIds) : DeviceIds[i] = Val(device_id)

RowBefore(a, b) ==
    \/ DeviceRank(a.device_id) < DeviceRank(b.device_id)
    \/ DeviceRank(a.device_id) = DeviceRank(b.device_id) /\ a.time < b.time

RECURSIVE SortValues(_)
\* df.sort_values(["device_id", "time"]).reset_index(drop=True)
SortValues(S) ==
    IF S = {} THEN <<>>
    ELSE LET first == CHOOSE x \in S : \A y \in S \ {x} : RowBefore(x, y)
         IN <<first>> \o SortValues(S \ {first})

\* df["device_id"].fillna("unknown")
FillNa(df) ==
    [i \in 1..Len(df) |->
        [device_id |-> IF IsNone(df[i].device_id) THEN "unknown" ELSE Val(df[i].device_id),
         time |-> df[i].time,
         value |-> df[i].value]]

\* mutant: diff() over the whole frame, without the groupby
PreviousInGroup_Ungrouped(df, i) == IF i > 1 THEN {i - 1} ELSE {}

\* the row diff() subtracts from row i: the nearest earlier row of the same group
PreviousInGroup(df, i) ==
    LET earlier == {j \in 1..(i - 1) : df[j].device_id = df[i].device_id} IN
    IF earlier = {} THEN {} ELSE {CHOOSE j \in earlier : \A k \in earlier : k <= j}

\* groupby("device_id")["value"].diff()
Diff(df, i) ==
    LET prev == PreviousInGroup(df, i) IN
    IF prev = {} THEN None
    ELSE Some(df[i].value - df[CHOOSE j \in prev : TRUE].value)

\* mutant: only missing differences are masked, negative ones are kept
Mask_NaOnly(d) == d

\* .mask(lambda s: (s < 0) | (s.isna()))
Mask(d) == IF IsNone(d) \/ Val(d) < 0 THEN None ELSE d

\* the delta column
Delta(df) == [i \in 1..Len(df) |-> Mask(Mask(Diff(df, i)))]

RECURSIVE SumPresent(_)
SumPresent(cells) ==
    IF cells = <<>> THEN 0
    ELSE (IF IsNone(Head(cells)) THEN 0 ELSE Val(Head(cells))) + SumPresent(Tail(cells))

\* mutant: sum() without min_count, 0 for a bucket without data
SumMinCount_Zero(cells) == Some(SumPresent(cells))

\* .sum(min_count=1): NaN unless at least one cell is present
SumMinCount(cells) ==
    IF \A i \in 1..Len(cells) : IsNone(cells[i]) THEN None ELSE Some(SumPresent(cells))

RECURSIVE Select(_, _, _)
\* the cells of the rows i..Len(df) that satisfy keep, in frame order
Select(cells, keep, i) ==
    IF i > Len(cells) THEN <<>>
    ELSE (IF keep[i] THEN <<cells[i]>> ELSE <<>>) \o Select(cells, keep, i + 1)

GroupKeys(df) == {df[i].device_id : i \in 1..Len(df)}

HourOf(time) == time \div MinutesPerHour

\* groupby("device_id")["delta"].resample("1h").sum(min_count=1): one row for every
\* hour from the group's first sample to its last one
Hourly(df, delta) ==
    UNION { LET members == {i \in 1..Len(df) : df[i].device_id = g}
                first == CHOOSE i \in members : \A j \in members : df[i].time <= df[j].time
                last == CHOOSE i \in members : \A j \in members : df[j].time <= df[i].time
            IN { [device_id |-> g,
                  time |-> h * MinutesPerHour,
                  kwh |-> SumMinCount(Select(delta,
                              [i \in 1..Len(df) |-> i \in members /\ HourOf(df[i].time) = h],
                              1))] :
                 h \in HourOf(df[first].time)..HourOf(df[last].time) }
          : g \in GroupKeys(df) }

\* hourly["time"].dt.date
DateOfTime(time) == HourOf(time) \div HoursPerDay

\* the kwh cells of the hourly rows of one (device_id, date) group, in time order
HourlyCells(hourly, device_id, date) ==
    LET S == {r \in hourly : r.device_id = device_id /\ DateOfTime(r.time) = date}
        hours == {HourOf(r.time) : r \in S}
        kwhAt == [h \in hours |-> (CHOOSE r \in S : HourOf(r.time) = h).kwh]
        lo == CHOOSE h \in hours : \A u \in hours : h <= u
        hi == CHOOSE h \in hours : \A u \in hours : u <= h
    IN Select([k \in 1..(hi - lo + 1) |-> IF lo + k - 1 \in hours THEN kwhAt[lo + k - 1] ELSE None],
              [k \in 1..(hi - lo + 1) |-> lo + k - 1 \in hours], 1)

\* hourly.assign(date=...).groupby(["device_id", "date"])["kwh"].sum(min_count=1)
Daily(hourly) ==
    { [device_id |-> k[1], date |-> k[2],
       kwh |-> SumMinCount(HourlyCells(hourly, k[1], k[2]))] :
      k \in {<<r.device_id, DateOfTime(r.time)>> : r \in hourly} }

\* _fetch_energy_data: the response becomes the sorted frame
FetchEnergyData ==
    /\ frame.phase = "response"
    /\ frame' = [frame EXCEPT !.phase = "fetched", !.rows = SortValues(frame.response)]
    /\ UNCHANGED <<daily, monthly, lastOp, flux, benchmarks, jobs, targets, modbus_devices>>

\* _compute_hourly_daily: an empty frame gives two empty frames
ComputeHourlyDaily ==
    /\ frame.phase = "fetched"
    /\ frame' =
          IF frame.rows = <<>>
          THEN [frame EXCEPT !.phase = "computed"]
          ELSE LET df == FillNa(frame.rows)
                   delta == Delta(df)
                   hourly == Hourly(df, delta)
               IN [frame EXCEPT !.phase = "computed", !.rows = df, !.delta = delta,
                                !.hourly = hourly, !.daily = Daily(hourly)]
    /\ UNCHANGED <<daily, monthly, lastOp, flux, benchmarks, jobs, targets, modbus_devices>>

InitDelta ==
    /\ targets = NoTargets
    /\ modbus_devices = NoDevices
    /\ daily = EmptyBag
    /\ monthly = EmptyBag
    /\ lastOp = Op("init", "-", 0, "-", "none")
    /\ flux = NoFlux
    /\ benchmarks = EmptyBag
    /\ jobs = NoJobs
    /\ \E response \in Responses :
          frame = [phase |-> "response", response |-> response, rows |-> <<>>,
                   delta |-> <<>>, hourly |-> {}, daily |-> {}]

NextDelta == FetchEnergyData \/ ComputeHourlyDaily

SpecDelta == InitDelta /\ [][NextDelta]_vars

-----------------------------------------------------------------------------
(* Claims about the aggregate store (checked under Spec)                   *)

\* the operation that ran last is name on (device, date)
Ran(name, device, date) ==
    lastOp.op = name /\ lastOp.device = device /\ lastOp.date = date

\* the last operation wrote a row
Stored == lastOp.outcome \in {"created", "updated", "from_daily", "from_influx"}

\* every row is held once and no two rows share (device, date, is_overtime)
DailyKeysUnique(table) ==
    \A r \in Rows(table) :
        /\ CopiesIn(r, table) = 1
        /\ \A q \in Rows(table) :
              (q.device = r.device /\ q.date = r.date /\ q.is_overtime = r.is_overtime)
                  => q = r

\* a run of aggregateDaily that directly follows a run for the same (device, date)
\* which stored its row
DailyRerun ==
    /\ lastOp.op = "aggregate_daily" /\ lastOp.outcome \in {"created", "updated"}
    /\ lastOp'.op = "aggregate_daily"
    /\ lastOp'.device = lastOp.device /\ lastOp'.date = lastOp.date

DailyInCalendarMonth(device, date) ==
    {r \in Rows(daily) : r.device = device /\ MonthOf(r.date) = MonthOf(date)}

\* the MonthlyAggregate rows stored for the unit of work of the last operation
LastMonthly == MonthlyLookup(monthly, lastOp.device, lastOp.date)

C7_NoDataNoRow ==
    ~( /\ lastOp.op = "aggregate_daily"
       /\ lastOp.outcome = "created"
       /\ EnergyQuery(lastOp.device, lastOp.date, lastOp.date + 1) = <<>> )

\* C8: on the daily path data_completeness is the number of distinct calendar days of
\* the month with a DailyAggregate of the device, over the calendar days of the month,
\* times 100, and lies in (0, 100].
C8_CompletenessByDays ==
    (lastOp.op = "aggregate_monthly" /\ lastOp.outcome = "from_daily") =>
        LET rows == DailyInCalendarMonth(lastOp.device, lastOp.date)
            days_present == Cardinality({r.date : r \in rows})
            calendar_days == DaysInMonth[MonthOf(lastOp.date)]
        IN \A a \in LastMonthly :
              /\ a.data_completeness = Frac(days_present * Percent, calendar_days)
              /\ a.data_completeness[1] > 0
              /\ a.data_completeness[1] <= Percent * a.data_completeness[2]

\* C10: aggregateMonthly takes the direct-query path exactly when the device has no
\* DailyAggregate in the month; when it has one, exactly one MonthlyAggregate is stored
\* under (device, month) afterwards and it is the roll-up of those daily rows, also
\* when the row stored before was written by the direct-query path.
C10_FallbackIffNoDaily ==
    lastOp.op = "aggregate_monthly" =>
        LET rows == DailyInCalendarMonth(lastOp.device, lastOp.date) IN
        /\ (lastOp.outcome \in {"from_influx", "query_failed"}) <=> (rows = {})
        /\ rows # {} =>
              /\ lastOp.outcome = "from_daily"
              /\ CountRows(monthly, LastMonthly) = 1
              /\ LastMonthly = {NewMonthly(lastOp.device, lastOp.date,
                                    MonthlyFromDailyDefaults(daily, rows, lastOp.date))}

\* the daily roll-up replaced a MonthlyAggregate that the direct-query path had written
C10_Witness ==
    /\ lastOp.op = "aggregate_monthly" /\ lastOp.outcome = "from_daily"
    /\ lastOp.prior = "fallback"
    /\ CountRows(monthly, LastMonthly) = 1

RECURSIVE CounterDeltas(_)
\* the consumption a series of counter readings shows: the sum of its non-negative
\* successive differences
CounterDeltas(values) ==
    IF Len(values) < 2 THEN 0
    ELSE (IF values[2] >= values[1] THEN values[2] - values[1] ELSE 0)
         + CounterDeltas(Tail(values))

\* C9: the DailyAggregate a run of aggregateDaily wrote has total_energy_kwh equal to
\* the sum of the day's counter deltas and avg_power_kw equal to total_energy_kwh / 24.
C9_DailyTotalIsDeltaSum ==
    (lastOp.op = "aggregate_daily" /\ lastOp.outcome \in {"created", "updated"}) =>
        LET series == EnergyQuery(lastOp.device, lastOp.date, lastOp.date + 1)
            readings == PowerValues(ResponseCells(series))
        IN \A r \in DailyLookup(daily, lastOp.device, lastOp.date) :
              /\ r.total_energy_kwh = CounterDeltas(readings)
              /\ r.avg_power_kw = Frac(r.total_energy_kwh, HoursPerDay)

\* the component of a field by the ordered patterns alone, a total-energy or
\* total-power field belonging to no component
SubLoadComponent(field_name) ==
    IF field_name \in EnergyFields THEN None ELSE IdentifyComponent(field_name)

RECURSIVE SubLoadBreakdown(_, _)
SubLoadBreakdown(cells, acc) ==
    IF cells = <<>> THEN acc
    ELSE LET component == SubLoadComponent(Head(cells).field) IN
         SubLoadBreakdown(Tail(cells),
                          IF IsNone(component) THEN acc
                          ELSE DictAdd(acc, Val(component), Head(cells).value))

\* C11: the component_breakdown a run of aggregateDaily stored holds, per component,
\* the values of the fields whose first matching pattern is that component, and the
\* total-energy fields (total_energy, total_active_power, active_power_total) are
\* added to no component.
C11_TotalsInNoComponent ==
    (lastOp.op = "aggregate_daily" /\ lastOp.outcome \in {"created", "updated"}) =>
        LET series == EnergyQuery(lastOp.device, lastOp.date, lastOp.date + 1) IN
        \A r \in DailyLookup(daily, lastOp.device, lastOp.date) :
            r.component_breakdown = SubLoadBreakdown(ResponseCells(series), EmptyDict)

-----------------------------------------------------------------------------
(* Claims about the query builder (checked under SpecFlux)                 *)

\* the sub-queries that read the instant [t, t + 1)
Covering(t) == {i \in 1..Len(flux.queries) : flux.queries[i].start <= t /\ t < flux.queries[i].stop}

\* the validity window of the tier a sub-query reads
InTierWindow(q, now) ==
    CASE q.measurement = "raw" -> now - RawDays <= q.start /\ q.stop <= now
      [] q.measurement = "1m" -> now - OneMinuteDays <= q.start /\ q.stop <= now - RawDays
      [] q.measurement = "5m" ->
            now - FiveMinuteDays <= q.start /\ q.stop <= now - OneMinuteDays
      [] q.measurement = "1h" -> q.stop <= now - FiveMinuteDays

\* C4: for a range start < end <= now the sub-queries are non-empty half-open
\* intervals inside their tier's validity window, every instant of [start, end) is
\* read by exactly one of them and no instant outside [start, end) is read.
C4_TiersPartitionRange ==
    (flux.phase = "built" /\ flux.start < flux.stop /\ flux.stop <= flux.now) =>
        /\ \A i \in 1..Len(flux.queries) :
              /\ flux.queries[i].start < flux.queries[i].stop
              /\ flux.start <= flux.queries[i].start
              /\ flux.queries[i].stop <= flux.stop
              /\ InTierWindow(flux.queries[i], flux.now)
        /\ \A t \in flux.start..(flux.stop - 1) : Cardinality(Covering(t)) = 1

\* a range that spans the 5-day and the 35-day boundary was split over three tiers
C4_Witness ==
    /\ flux.phase = "built"
    /\ flux.start < flux.now - OneMinuteDays /\ flux.now - RawDays < flux.stop
    /\ flux.stop <= flux.now
    /\ Len(flux.queries) = 3
    /\ flux.queries[1].start = flux.queries[2].stop
    /\ flux.queries[2].start = flux.queries[3].stop

-----------------------------------------------------------------------------
(* Claims about the reducer (checked under SpecDelta)                      *)

Computed == frame.phase = "computed"

\* the group a stored sample is counted in
GroupOf(sample) == IF IsNone(sample.device_id) THEN "unknown" ELSE Val(sample.device_id)

\* the stored samples of the group of row i that are older than row i
Older(i) ==
    {x \in frame.response :
        GroupOf(x) = frame.rows[i].device_id /\ x.time < frame.rows[i].time}

\* the newest of a non-empty set of samples
Newest(S) == CHOOSE x \in S : \A y \in S : y.time <= x.time

\* C3: no delta is negative; a sample below its predecessor in the time-ordered
\* series of its device (a reset) has a null delta, and every other sample that
\* has a predecessor has delta value[i] - value[i-1], also right after a reset.
C3_MonotonicityRepair ==
    Computed =>
        /\ Len(frame.delta) = Len(frame.rows)
        /\ \A i \in 1..Len(frame.rows) :
              /\ ~IsNone(frame.delta[i]) => Val(frame.delta[i]) >= 0
              /\ Older(i) # {} =>
                    LET previous == Newest(Older(i)).value IN
                    IF frame.rows[i].value < previous
                    THEN IsNone(frame.delta[i])
                    ELSE frame.delta[i] = Some(frame.rows[i].value - previous)

\* a device whose counter rose, fell back and rose again: the reset's delta is
\* null and the deltas around it are the positive differences
C3_Witness ==
    /\ Computed
    /\ \E i \in 1..Len(frame.rows) :
          /\ i + 3 <= Len(frame.rows)
          /\ frame.rows[i].device_id = frame.rows[i + 3].device_id
          /\ frame.rows[i + 1].value > frame.rows[i].value
          /\ frame.rows[i + 2].value < frame.rows[i + 1].value
          /\ frame.rows[i + 3].value > frame.rows[i + 2].value
          /\ frame.delta[i + 1] = Some(frame.rows[i + 1].value - frame.rows[i].value)
          /\ IsNone(frame.delta[i + 2])
          /\ frame.delta[i + 3] = Some(frame.rows[i + 3].value - frame.rows[i + 2].value)

\* the rows of a device in one hour bucket (starting at minute time) with a delta
PresentDeltas(device_id, time) ==
    {i \in 1..Len(frame.rows) :
        /\ frame.rows[i].device_id = device_id
        /\ time <= frame.rows[i].time /\ frame.rows[i].time < time + MinutesPerHour
        /\ ~IsNone(frame.delta[i])}

RECURSIVE SumOfDeltas(_)
SumOfDeltas(I) ==
    IF I = {} THEN 0
    ELSE LET i == CHOOSE x \in I : TRUE IN Val(frame.delta[i]) + SumOfDeltas(I \ {i})

\* the hour buckets of a device on one date that hold a value
PresentHours(device_id, date) ==
    {r \in frame.hourly :
        /\ r.device_id = device_id
        /\ date * HoursPerDay * MinutesPerHour <= r.time
        /\ r.time < (date + 1) * HoursPerDay * MinutesPerHour
        /\ ~IsNone(r.kwh)}

RECURSIVE SumOfKwh(_)
SumOfKwh(S) ==
    IF S = {} THEN 0
    ELSE LET r == CHOOSE x \in S : TRUE IN Val(r.kwh) + SumOfKwh(S \ {r})

\* C5: an hour bucket is null when it holds no non-null delta and the sum of its
\* non-null deltas otherwise; a daily total is null when all hour buckets of the
\* day are null and the sum of the non-null ones otherwise; a bucket is 0 only
\* when it holds a delta and all deltas it holds are 0.
C5_NoDataIsNotZero ==
    Computed =>
        /\ \A r \in frame.hourly :
              LET present == PresentDeltas(r.device_id, r.time) IN
              /\ r.kwh = IF present = {} THEN None ELSE Some(SumOfDeltas(present))
              /\ r.kwh = Some(0) =>
                    present # {} /\ \A i \in present : frame.delta[i] = Some(0)
        /\ \A d \in frame.daily :
              LET present == PresentHours(d.device_id, d.date) IN
              d.kwh = IF present = {} THEN None ELSE Some(SumOfKwh(present))

\* one frame with an hour without data, an hour of zero consumption, a day
\* without data and a day with consumption
C5_Witness ==
    /\ Computed
    /\ \E r \in frame.hourly : IsNone(r.kwh)
    /\ \E r \in frame.hourly : r.kwh = Some(0)
    /\ \E d \in frame.daily : IsNone(d.kwh)
    /\ \E d \in frame.daily : ~IsNone(d.kwh) /\ Val(d.kwh) > 0

\* the rows of one group in the computed frame
RowsOfGroup(g) == {i \in 1..Len(frame.rows) : frame.rows[i].device_id = g}

\* the frame the reducer is handed when the store holds the samples of group g only
Alone(g) == FillNa(SortValues({x \in frame.response : GroupOf(x) = g}))

\* C6: the first sample of every device has no delta, and the delta, hourly and
\* daily series of a device are the ones the reducer computes from that device's
\* samples alone, whatever samples the other devices have.
C6_PerDeviceIndependent ==
    Computed =>
        \A g \in GroupKeys(frame.rows) :
            LET first == CHOOSE i \in RowsOfGroup(g) : \A j \in RowsOfGroup(g) : i <= j
                alone == Alone(g)
                hourly == Hourly(alone, Delta(alone))
            IN /\ IsNone(frame.delta[first])
               /\ Select(frame.delta, [i \in 1..Len(frame.rows) |-> i \in RowsOfGroup(g)], 1)
                     = Delta(alone)
               /\ {r \in frame.hourly : r.device_id = g} = hourly
               /\ {d \in frame.daily : d.device_id = g} = Daily(hourly)

\* two devices with two samples each, the second one starting above the last
\* value of the first: its first sample still has no delta
C6_Witness ==
    /\ Computed
    /\ \E i \in 2..Len(frame.rows) :
          /\ frame.rows[i - 1].device_id = "A" /\ frame.rows[i].device_id = "B"
          /\ Cardinality(RowsOfGroup("A")) >= 2 /\ Cardinality(RowsOfGroup("B")) >= 2
          /\ frame.rows[i].value > frame.rows[i - 1].value
          /\ IsNone(frame.delta[i])
          /\ ~IsNone(frame.delta[i + 1])

-----------------------------------------------------------------------------
(* Claims about the tasks and their batches (checked under SpecTasks)      *)

\* the rows a table holds for one device, with their multiplicity
DeviceRows(table, device) ==
    [r \in {x \in Rows(table) : x.device = device} |-> CopiesIn(r, table)]

\* the outcome a finished batch reports for a device
OutcomeOf(op, device) ==
    LET at == {i \in 1..Len(op.outcomes) : op.outcomes[i].device = device} IN
    IF at = {} THEN "skipped" ELSE op.outcomes[CHOOSE i \in at : TRUE].outcome

\* the batch visited every active device, once, in order
AllProcessed(op) ==
    /\ Len(op.outcomes) = Len(ActiveDevices)
    /\ \A i \in 1..Len(ActiveDevices) : op.outcomes[i].device = ActiveDevices[i]

\* the returned aggregates are those of the devices that succeeded
SuccessesReturned(op) ==
    /\ \A i \in 1..Len(op.aggregates) : OutcomeOf(op, op.aggregates[i]) \in Returned
    /\ \A d \in Devices :
          OutcomeOf(op, d) \in Returned => \E i \in 1..Len(op.aggregates) : op.aggregates[i] = d

\* C12: a daily or monthly batch over all active devices raises nothing to its
\* caller and processes every device; whatever happens to the other devices, each
\* device ends as its own unit of work ends on the table before the batch
\* (committed when it succeeds, untouched when it fails), and the aggregates of
\* the devices that succeeded are returned.
C12_BatchFailureIsolated ==
    [][ (lastOp'.op \in {"task_daily", "task_monthly"} /\ IsNone(lastOp'.device_id)) =>
          /\ ~lastOp'.raised
          /\ AllProcessed(lastOp')
          /\ SuccessesReturned(lastOp')
          /\ lastOp'.op = "task_daily" =>
                \A d \in Devices :
                    LET alone == DailyStep(daily, d, lastOp'.date, d \notin lastOp'.failing)
                    IN /\ OutcomeOf(lastOp', d) = alone.outcome
                       /\ DeviceRows(daily', d) = DeviceRows(alone.table, d)
          /\ lastOp'.op = "task_monthly" =>
                \A d \in Devices :
                    LET alone == MonthlyStep(daily, monthly, d, lastOp'.date,
                                             d \notin lastOp'.failing)
                    IN /\ OutcomeOf(lastOp', d) = alone.outcome
                       /\ DeviceRows(monthly', d) = DeviceRows(alone.table, d)
      ]_vars

\* a daily batch in which the write of the first device raised (two rows under its
\* lookup) and the second device's aggregate was stored and returned
C12_Witness ==
    /\ lastOp.op = "task_daily" /\ IsNone(lastOp.device_id)
    /\ OutcomeOf(lastOp, "D1") = "error"
    /\ OutcomeOf(lastOp, "D2") \in {"created", "updated"}
    /\ lastOp.aggregates = <<"D2">>
    /\ DailyLookup(daily, "D2", lastOp.date) # {}

\* the device_id a task was triggered with names no device
UnknownDevice(op) ==
    /\ op.op \in {"task_daily", "task_monthly", "task_backfill"}
    /\ ~IsNone(op.device_id)
    /\ Val(op.device_id) \notin DOMAIN Registry

\* C13: a task triggered with a device id that resolves to no device creates and
\* modifies no DailyAggregate and no MonthlyAggregate of any device.
C13_UnknownDeviceSkipped ==
    [][ UnknownDevice(lastOp') => (daily' = daily /\ monthly' = monthly) ]_vars

-----------------------------------------------------------------------------
(* Claims about concurrent jobs (checked under SpecRace)                   *)

AllDone == \A j \in JobIds : jobs[j].pc = "done"

\* the table a single run leaves when it starts from the table the jobs started from
SequentialResult ==
    IF lastOp.kind = "daily"
    THEN DailyStep(IF lastOp.stale THEN SetToBag({StaleDaily}) ELSE EmptyBag,
                   RaceDevice, RaceDate, TRUE).table
    ELSE MonthlyStep(daily, IF lastOp.stale THEN SetToBag({StaleMonthly}) ELSE EmptyBag,
                     RaceDevice, RaceDate, TRUE).table

\* no job has ended in an error, and once both are done the table holds exactly
\* one row under the key, with the values a single sequential run stores
Converged ==
    /\ \A j \in JobIds : jobs[j].outcome # "error"
    /\ AllDone =>
          LET table == JobTable(lastOp.kind) IN
          /\ CountRows(table, JobLookup(lastOp.kind, table)) = 1
          /\ table = SequentialResult

\* how far a job is through update_or_create
Position(pc) ==
    CASE pc = "start" -> 0 [] pc = "get" -> 1 [] pc = "create" -> 2
      [] pc = "retry_get" -> 3 [] pc = "save" -> 4 [] pc = "done" -> 5

\* a step moves one job forward and leaves the other where it is
JobAdvances ==
    \E j \in JobIds :
        /\ Position(jobs'[j].pc) > Position(jobs[j].pc)
        /\ \A k \in JobIds \ {j} : jobs'[k] = jobs[k]

\* C14: however the steps of two jobs for one key interleave, every step moves a
\* job forward through its finitely many positions (so both jobs end), no job
\* ends in an error, and when both are done exactly one row is stored under the
\* key, with the values a single sequential run stores.
C14_ConcurrentRunsConverge == []Converged /\ [][JobAdvances]_vars

\* both jobs missed the row, one inserted it, the other's INSERT hit the unique
\* constraint and it updated the row instead
C14_Witness ==
    /\ AllDone
    /\ \E j, k \in JobIds :
          /\ jobs[j].outcome = "created"
          /\ jobs[k].outcome = "updated" /\ jobs[k].retried
    /\ CountRows(JobTable(lastOp.kind), JobLookup(lastOp.kind, JobTable(lastOp.kind))) = 1

-----------------------------------------------------------------------------
(* Claims checked under SpecBench                                          *)

\* a call of calculate_benchmark of the type that stored its result
BenchStored(op, benchmark_type) ==
    /\ op.op = "calculate_benchmark"
    /\ op.benchmark_type = benchmark_type
    /\ op.outcome \in {"created", "updated"}

\* the efficiency of a stored aggregate
Eff(r) == Val(r.efficiency_kwh_per_unit)

\* the qualifying points of a daily benchmark: the DailyAggregates of the scope dated
\* in [today - daysBack, today] whose efficiency is present and greater than zero
QualifyingDays(device, days_back) ==
    {r \in Rows(daily) :
        /\ BenchToday - days_back <= r.date /\ r.date <= BenchToday
        /\ (IsNone(device) \/ r.device = Val(device))
        /\ r.efficiency_kwh_per_unit # None
        /\ Eff(r)[1] > 0}

\* C15: a stored best_day benchmark has the least efficiency of the qualifying days
\* as its value and the date of such a day as both period_start and period_end; when
\* several days share the least efficiency it is the earliest of them
C15_BestDayEarliestMinimum ==
    [][ BenchStored(lastOp', "best_day") =>
          LET qs == QualifyingDays(lastOp'.device, lastOp'.days_back)
              b == Val(lastOp'.returned)
          IN /\ \A r \in qs : ~FracLess(Eff(r), b.benchmark_value)
             /\ b.period_start = b.period_end
             /\ \E r \in qs : r.date = b.period_start /\ Eff(r) = b.benchmark_value
             /\ \A r \in qs : Eff(r) = b.benchmark_value => b.period_start <= r.date
      ]_vars

\* the windows of seven consecutive qualifying days, in date order
Weeks(qs) ==
    {w \in SUBSET qs :
        /\ Cardinality(w) = DaysPerWeek
        /\ \A r \in qs \ w : \/ \A x \in w : r.date < x.date
                             \/ \A x \in w : r.date > x.date}

\* the mean efficiency of a set of days
MeanOf(w) == FracOver(SumEfficiencyOver(daily, w), Cardinality(w))

\* C16: a stored best_week benchmark is the least mean over the windows of seven
\* consecutive qualifying days; its period runs from the earliest date of that window
\* to its latest, so period_start <= period_end
C16_BestWeekWindow ==
    [][ BenchStored(lastOp', "best_week") =>
          LET qs == QualifyingDays(lastOp'.device, lastOp'.days_back)
              b == Val(lastOp'.returned)
          IN /\ b.period_start <= b.period_end
             /\ \A w \in Weeks(qs) : ~FracLess(MeanOf(w), b.benchmark_value)
             /\ \E w \in Weeks(qs) :
                   /\ MeanOf(w) = b.benchmark_value
                   /\ \A x \in w : b.period_start <= x.date /\ x.date <= b.period_end
                   /\ \E x \in w : x.date = b.period_start
                   /\ \E x \in w : x.date = b.period_end
      ]_vars

\* the qualifying points of best_month: the MonthlyAggregates of the scope whose month
\* lies in the range and whose efficiency is present and greater than zero
QualifyingMonths(device, days_back) ==
    {r \in Rows(monthly) :
        /\ ReplaceDay1(BenchToday - days_back) <= r.month
        /\ r.month <= ReplaceDay1(BenchToday)
        /\ (IsNone(device) \/ r.device = Val(device))
        /\ r.efficiency_kwh_per_unit # None
        /\ Eff(r)[1] > 0}

\* a call of calculate_benchmark of the type that ran its calculation
BenchCalculated(op, benchmark_type) ==
    /\ op.op = "calculate_benchmark"
    /\ op.benchmark_type = benchmark_type
    /\ op.outcome # "existing"

\* C17: when a MonthlyAggregate in range has efficiency > 0, the best_month
\* calculation completes without error and stores the least efficiency with the first
\* and the last day of that month as its period
C17_BestMonthCompletes ==
    [][ (/\ BenchCalculated(lastOp', "best_month")
         /\ QualifyingMonths(lastOp'.device, lastOp'.days_back) # {}) =>
          /\ lastOp'.outcome \in {"created", "updated"}
          /\ LET qs == QualifyingMonths(lastOp'.device, lastOp'.days_back)
                 b == Val(lastOp'.returned)
             IN /\ \A r \in qs : ~FracLess(Eff(r), b.benchmark_value)
                /\ \E r \in qs :
                      /\ Eff(r) = b.benchmark_value
                      /\ b.period_start = ReplaceDay1(r.month)
                      /\ b.period_end = ReplaceDay1(r.month) + DaysInMonthOf(r.month) - 1
      ]_vars

\* the k-th smallest efficiency of a set of days, equal values counted each
KthSmallest(qs, k) ==
    Eff(CHOOSE r \in qs :
            /\ Cardinality({x \in qs : FracLess(Eff(x), Eff(r))}) < k
            /\ k <= Cardinality({x \in qs : ~FracLess(Eff(r), Eff(x))}))

\* the median of the efficiencies: the middle value of an odd count, the mean of the
\* two middle values of an even count
MedianOfDays(qs) ==
    LET n == Cardinality(qs) IN
    IF n % 2 = 1 THEN KthSmallest(qs, (n + 1) \div 2)
    ELSE FracOver(FracAdd(KthSmallest(qs, n \div 2), KthSmallest(qs, (n \div 2) + 1)), 2)

\* C18: a stored average benchmark is the arithmetic mean of the qualifying
\* efficiencies and a stored median benchmark their median; calculated_from_days is
\* the number of qualifying values
C18_AverageAndMedian ==
    [][ LET qs == QualifyingDays(lastOp'.device, lastOp'.days_back)
            b == Val(lastOp'.returned)
        IN /\ BenchStored(lastOp', "average") =>
                /\ qs # {}
                /\ b.benchmark_value = MeanOf(qs)
                /\ b.calculated_from_days = Cardinality(qs)
           /\ BenchStored(lastOp', "median") =>
                /\ qs # {}
                /\ b.benchmark_value = MedianOfDays(qs)
                /\ b.calculated_from_days = Cardinality(qs)
      ]_vars

\* a median was stored from an even number of values whose two middle values differ
C18_Witness ==
    /\ BenchStored(lastOp, "median")
    /\ LET qs == QualifyingDays(lastOp.device, lastOp.days_back) IN
       /\ Cardinality(qs) % 2 = 0
       /\ Cardinality(qs) > 2
       /\ \A r \in qs : Eff(r) # Val(lastOp.returned).benchmark_value

\* the benchmark type has no qualifying data point for the scope and the range
NoQualifyingData(benchmark_type, device, days_back) ==
    IF benchmark_type = "best_month" THEN QualifyingMonths(device, days_back) = {}
    ELSE QualifyingDays(device, days_back) = {}

\* C19: for every benchmark type, a calculation with no qualifying data point returns
\* none without raising and leaves the stored EfficiencyBenchmark rows unchanged
C19_NoDataReturnsNone ==
    [][ (/\ lastOp'.op = "calculate_benchmark"
         /\ NoQualifyingData(lastOp'.benchmark_type, lastOp'.device, lastOp'.days_back)) =>
          /\ lastOp'.outcome = "none"
          /\ lastOp'.returned = None
          /\ benchmarks' = benchmarks
      ]_vars

\* the stored benchmarks of one (device, benchmark_type, metric_name)
SameKey(table, b) ==
    {x \in Rows(table) : x.device = b.device /\ x.benchmark_type = b.benchmark_type
                         /\ x.metric_name = b.metric_name}

\* C20: at most one EfficiencyBenchmark is stored per (device, benchmark_type,
\* metric_name), device = null included; a recalculation overwrites the stored values,
\* and since no caller of the scheduled job asks to keep stored benchmarks, after the
\* job every stored average benchmark is the mean of the current aggregates
C20_UpsertRefreshes ==
    [][ /\ \A b \in Rows(benchmarks') : CountRows(benchmarks', SameKey(benchmarks', b)) = 1
        /\ lastOp'.op = "calculate_benchmarks" =>
              \A b \in Rows(benchmarks') :
                 (b.benchmark_type = "average"
                  /\ QualifyingDays(b.device, lastOp'.days_back) # {}) =>
                     b.benchmark_value = MeanOf(QualifyingDays(b.device, lastOp'.days_back))
      ]_vars

-----------------------------------------------------------------------------
(* Claims checked under SpecTargets                                        *)

\* the step is a tracker run that updated the loaded target
TrackerRan == jobs.pc = "loaded" /\ jobs'.pc = "idle" /\ jobs.loaded # None

\* the target the tracker works on and the day it runs
Tracked == Val(jobs.loaded)

\* the period is still running on the day of the run
Running == PeriodDays(Tracked) - DaysElapsed(Tracked, jobs.today) > 0

\* the aggregates of the target's device in the last seven days
LastWeek ==
    {r \in Rows(daily) :
        /\ jobs.today - TrendDays <= r.date /\ r.date <= jobs.today
        /\ (IsNone(Tracked.device) \/ r.device = Val(Tracked.device))}

\* the trend over the last seven days is improving: the efficiency of the most recent
\* day is lower than that of the oldest day of the window
ImprovingByDate ==
    LET W == {r \in LastWeek : r.efficiency_kwh_per_unit # None} IN
    \E oldest \in W, latest \in W :
        /\ \A r \in W : oldest.date <= r.date /\ r.date <= latest.date
        /\ FracLess(Eff(latest), Eff(oldest))

\* C21: while the period runs, an efficiency target is on track if current_value <=
\* target_value; otherwise exactly when the 7-day trend is improving in date order
\* and current_value <= 1.1 x target_value
C21_EfficiencyOnTrackRule ==
    [][ (TrackerRan /\ IsEfficiencyMetric(Tracked.metric_name) /\ Running) =>
          LET current == targets'[TargetId].current_value IN
          targets'[TargetId].is_on_track =
              (\/ FracLeq(current, Tracked.target_value)
               \/ /\ ImprovingByDate
                  /\ FracLeq(current, FracTimes(Tracked.target_value, TenPercentMore)))
      ]_vars

\* the daily totals of the recent window in date order
WeekTotals == DateAscending(LastWeek)

\* the mean of the totals at positions from..to of the window
MeanTotals(from, to) == Ratio(SumTotals(SubSeq(WeekTotals, from, to)), (to - from) + 1)

\* expected_value = target_value x days_elapsed / period_length_days
ExpectedValue ==
    FracTimes(Tracked.target_value,
              Ratio(DaysElapsed(Tracked, jobs.today), PeriodDays(Tracked)))

\* current_value + recent_average x days_remaining >= target_value
ProjectionMeetsTarget(current) ==
    LET n == Len(WeekTotals) IN
    FracLeq(Tracked.target_value,
            FracPlus(current,
                     FracTimes(MeanTotals(n - 2, n),
                               Ratio(PeriodDays(Tracked) - DaysElapsed(Tracked, jobs.today), 1))))

\* C22 as stated: while the period runs, a volume target is on track if current_value >=
\* expected_value; otherwise exactly when the average of the last 3 daily totals exceeds
\* the average of the first 3 daily totals of the recent window by more than 10% and
\* the projection current_value + recent_average x days_remaining meets target_value
C22_VolumeOnTrackRule_Stated ==
    [][ (TrackerRan /\ ~IsEfficiencyMetric(Tracked.metric_name) /\ Running) =>
          LET current == targets'[TargetId].current_value
              n == Len(WeekTotals)
          IN targets'[TargetId].is_on_track =
              (\/ FracLeq(ExpectedValue, current)
               \/ /\ n >= 3
                  /\ FracLess(FracTimes(MeanTotals(1, 3), TenPercentMore), MeanTotals(n - 2, n))
                  /\ ProjectionMeetsTarget(current))
      ]_vars

\* C22 as amended: the average of the last 3 daily totals is compared with the average
\* of the first 3 only when the recent window holds at least 6 daily totals; with 3 to 5
\* it is compared with the first daily total, and with fewer than 3 the target is not
\* on track unless current_value >= expected_value
C22_VolumeOnTrackRule ==
    [][ (TrackerRan /\ ~IsEfficiencyMetric(Tracked.metric_name) /\ Running) =>
          LET current == targets'[TargetId].current_value
              n == Len(WeekTotals)
              earlier == IF n >= 6 THEN MeanTotals(1, 3) ELSE MeanTotals(1, 1)
          IN targets'[TargetId].is_on_track =
              (\/ FracLeq(ExpectedValue, current)
               \/ /\ n >= 3
                  /\ FracLess(FracTimes(earlier, TenPercentMore), MeanTotals(n - 2, n))
                  /\ ProjectionMeetsTarget(current))
      ]_vars

\* a running volume target behind schedule was found on track from a window of 3 to 5
\* daily totals
C22_Witness ==
    /\ lastOp.op = "update_target_progress" /\ lastOp.updated
    /\ lastOp.days_remaining > 0
    /\ ~IsEfficiencyMetric(targets[TargetId].metric_name)
    /\ targets[TargetId].is_on_track
    /\ FracLess(targets[TargetId].current_value,
                FracTimes(targets[TargetId].target_value,
                          Ratio(lastOp.days_elapsed, PeriodDays(targets[TargetId]))))
    /\ Cardinality({r \in Rows(daily) : lastOp.today - TrendDays <= r.date
                                          /\ r.date <= lastOp.today}) \in 3..5

\* C23: once the period has fully elapsed (days_remaining <= 0) is_on_track is exactly
\* the final comparison, current_value <= target_value for efficiency metrics and
\* current_value >= target_value for volume metrics; and for every date today, dates
\* before period_start included, days_elapsed lies between 0 and the period length
C23_PeriodEndDirectComparison ==
    [][ TrackerRan =>
          LET current == targets'[TargetId].current_value
              elapsed == DaysElapsed(Tracked, jobs.today)
          IN /\ ~Running =>
                  targets'[TargetId].is_on_track =
                      IF IsEfficiencyMetric(Tracked.metric_name)
                      THEN FracLeq(current, Tracked.target_value)
                      ELSE FracLeq(Tracked.target_value, current)
             /\ 0 <= elapsed /\ elapsed <= PeriodDays(Tracked)
      ]_vars

\* the first half of C23 alone: the direct comparison at period end
C23_DirectComparisonOnly ==
    [][ (TrackerRan /\ ~Running) =>
          LET current == targets'[TargetId].current_value
          IN targets'[TargetId].is_on_track =
                 IF IsEfficiencyMetric(Tracked.metric_name)
                 THEN FracLeq(current, Tracked.target_value)
                 ELSE FracLeq(Tracked.target_value, current)
      ]_vars

\* the fields of a Target the tracker is not meant to write
SetAtCreation(target) ==
    <<target.device, target.metric_name, target.target_period, target.period_start,
      target.period_end, target.target_value, target.benchmark_used>>

\* the tracker ran a second time on the same day, nothing having happened since its
\* previous run stored the target
RanAgainSameDay ==
    /\ TrackerRan
    /\ lastOp.op = "update_target_progress" /\ lastOp.updated
    /\ lastOp.today = jobs.today

\* the second half of C24 alone: a second run on the same day and the same aggregates
\* stores the same current_value and is_on_track
C24_SecondRunStoresSame ==
    [][ RanAgainSameDay =>
          /\ targets'[TargetId].current_value = targets[TargetId].current_value
          /\ targets'[TargetId].is_on_track = targets[TargetId].is_on_track
      ]_vars

\* C24: a tracker run changes only current_value and is_on_track of the target: the
\* other fields keep the values stored at the moment of the write, also when another
\* writer changed them after the tracker loaded the target; and a second run on the same
\* day and the same aggregates stores the same current_value and is_on_track
C24_TrackerFrameAndIdempotence ==
    [][ /\ TrackerRan => SetAtCreation(targets'[TargetId]) = SetAtCreation(targets[TargetId])
        /\ RanAgainSameDay =>
              /\ targets'[TargetId].current_value = targets[TargetId].current_value
              /\ targets'[TargetId].is_on_track = targets[TargetId].is_on_track
      ]_vars

-----------------------------------------------------------------------------
(* Claims about the analytics entry point (checked under SpecFlux)         *)

\* C25: a call of the analytics entry point with start >= end is refused before any
\* query is built or sent and before any result is produced: it is either still to be
\* served or rejected, and it holds no query
C25_InvalidRangeRejected ==
    (flux.start >= flux.stop) =>
        /\ flux.phase \in {"requested", "rejected"}
        /\ flux.queries = <<>>

\* a call with start = end was rejected
C25_Witness == flux.phase = "rejected" /\ flux.start = flux.stop /\ flux.queries = <<>>

-----------------------------------------------------------------------------
(* Devices and their registers (modbus.serializers, modbus.views).  The    *)
(* devices are kept by id, 1..Len(modbus_devices); the registers of a      *)
(* device are kept in the order of their creation, and the id of a         *)
(* register is represented by its position in that order.                  *)

\* bound of the model: at most this many devices are created
MaxDevices == 2

SupplyTypes == {"gen", "wapda", "solar"}

LoadTypes == {"dept", "facility", "process", "machine"}

\* the templates of a device model in the order ('order', 'address')
RegisterTemplates(device_model) ==
    IF device_model = "M1"
    THEN << [address |-> 10, name |-> "m", is_active |-> TRUE],
            [address |-> 20, name |-> "m", is_active |-> FALSE] >>
    ELSE << [address |-> 10, name |-> "m", is_active |-> TRUE],
            [address |-> 20, name |-> "m", is_active |-> TRUE] >>

Register(address, name) == [address |-> address, name |-> name]

\* the positions of the registers with this address
AtAddress(registers, address) == {i \in 1..Len(registers) : registers[i].address = address}

\* instance.registers.filter(address=...).first()
FirstAtAddress(registers, address) ==
    CHOOSE i \in AtAddress(registers, address) : \A j \in AtAddress(registers, address) : i <= j

\* the validated form of a register entry: id is a read-only field of the
\* ModelSerializer and is left out of validated_data
Validated(entry) == [entry EXCEPT !.id = None]

RECURSIVE CopyModelRegisters(_, _)
\* create: the active registers of the device model are copied to the device
CopyModelRegisters(registers, templates) ==
    IF templates = <<>> THEN registers
    ELSE CopyModelRegisters(
             IF Head(templates).is_active
             THEN Append(registers, Register(Head(templates).address, Head(templates).name))
             ELSE registers,
             Tail(templates))

\* mutant: a custom register is always created
UpdateOrCreate_Create(registers, address, name) == Append(registers, Register(address, name))

\* ModbusRegister.objects.update_or_create(device=device, address=address, defaults=defaults)
UpdateOrCreate(registers, address, name) ==
    IF AtAddress(registers, address) = {}
    THEN Append(registers, Register(address, name))
    ELSE [registers EXCEPT ![FirstAtAddress(registers, address)].name = name]

RECURSIVE AddCustomRegisters(_, _)
\* create: the custom registers of the request, in request order; get() inside
\* update_or_create raises when several registers hold the address
AddCustomRegisters(registers, registers_data) ==
    IF registers_data = <<>> THEN registers
    ELSE IF Cardinality(AtAddress(registers, Head(registers_data).address)) > 1
         THEN registers
         ELSE AddCustomRegisters(
                  UpdateOrCreate(registers, Head(registers_data).address,
                                 Head(registers_data).name),
                  Tail(registers_data))

\* the device create() stores and the registers it attaches
CreatedDevice(application_type, device_model, registers_data) ==
    [parent_device |-> None,
     application_type |-> application_type,
     device_model |-> device_model,
     registers |->
         AddCustomRegisters(
             IF device_model # None
             THEN CopyModelRegisters(<<>>, RegisterTemplates(Val(device_model)))
             ELSE <<>>,
             registers_data)]

\* the record of a request: the device named, the body, the status of the response
\* and the field a validation error names
DeviceOp(name, pk, data, http_status, field) ==
    [op |-> name, pk |-> pk, data |-> data, status |-> http_status, field |-> field]

\* POST /devices/: ModbusDeviceCreateSerializer.create
CreateDevice(application_type, device_model, entries) ==
    /\ Len(modbus_devices) < MaxDevices
    /\ modbus_devices' =
           Append(modbus_devices,
                  CreatedDevice(application_type, device_model,
                                [i \in 1..Len(entries) |-> Validated(entries[i])]))
    /\ lastOp' = DeviceOp("create_device", Len(modbus_devices) + 1,
                         <<application_type, device_model, entries>>, 201, "-")
    /\ UNCHANGED <<daily, monthly, flux, frame, benchmarks, jobs, targets>>

\* update: the register an entry is applied to, <<>> when it is to be created
ExistingRegister(registers, register_data) ==
    IF register_data.id # None /\ Val(register_data.id) \in 1..Len(registers)
    THEN Some(Val(register_data.id))
    ELSE IF AtAddress(registers, register_data.address) # {}
         THEN Some(FirstAtAddress(registers, register_data.address))
         ELSE None

RECURSIVE UpdateRegisters(_, _, _)
\* update: the loop over registers_data; the result holds the registers and
\* updated_register_ids
UpdateRegisters(registers, updated_register_ids, registers_data) ==
    IF registers_data = <<>>
    THEN [registers |-> registers, updated_register_ids |-> updated_register_ids]
    ELSE LET register_data == Head(registers_data)
             existing_register == ExistingRegister(registers, register_data)
         IN IF existing_register # None
            THEN UpdateRegisters(
                     [registers EXCEPT ![Val(existing_register)] =
                          Register(register_data.address, register_data.name)],
                     updated_register_ids \cup {Val(existing_register)},
                     Tail(registers_data))
            ELSE UpdateRegisters(
                     Append(registers, Register(register_data.address, register_data.name)),
                     updated_register_ids \cup {Len(registers) + 1},
                     Tail(registers_data))

RECURSIVE KeepRegisters(_, _, _)
\* the registers at the positions from i on that are not in registers_to_delete
KeepRegisters(registers, registers_to_delete, i) ==
    IF i > Len(registers) THEN <<>>
    ELSE (IF i \in registers_to_delete THEN <<>> ELSE <<registers[i]>>)
         \o KeepRegisters(registers, registers_to_delete, i + 1)

\* mutant: registers the request does not name are kept
ReplaceRegisters_KeepUnmatched(registers, registers_data) ==
    UpdateRegisters(registers, {}, registers_data).registers

\* update: the registers of the device after a request that carries registers_data
ReplaceRegisters(registers, registers_data) ==
    LET existing_register_ids == 1..Len(registers)
        done == UpdateRegisters(registers, {}, registers_data)
    IN KeepRegisters(done.registers, existing_register_ids \ done.updated_register_ids, 1)

\* mutant: the category of the application type is not looked at
CategoryChange_Allowed(old_application_type, new_application_type) == FALSE

\* update: old_is_supply and new_is_load, or old_is_load and new_is_supply
CategoryChange(old_application_type, new_application_type) ==
    \/ old_application_type \in SupplyTypes /\ new_application_type \in LoadTypes
    \/ old_application_type \in LoadTypes /\ new_application_type \in SupplyTypes

\* update: device_model is in the request, differs and the device has one already
ModelChange(instance, data) ==
    /\ data.device_model # None
    /\ instance.device_model # Val(data.device_model)
    /\ instance.device_model # None

\* a request body of PATCH /devices/{pk}/: a key is absent (None) or holds a value
Patch(parent_device, application_type, device_model, registers) ==
    [parent_device |-> parent_device, application_type |-> application_type,
     device_model |-> device_model, registers |-> registers]

\* update: the instance after the setattr loop, save() and the registers update
UpdatedDevice(instance, data) ==
    [parent_device |->
         IF data.parent_device # None THEN Val(data.parent_device) ELSE instance.parent_device,
     application_type |->
         IF data.application_type # None THEN Val(data.application_type)
         ELSE instance.application_type,
     device_model |->
         IF data.device_model # None /\ instance.device_model = None
         THEN Val(data.device_model)
         ELSE instance.device_model,
     registers |->
         IF data.registers # None
         THEN ReplaceRegisters(instance.registers,
                               [i \in 1..Len(Val(data.registers)) |->
                                    Validated(Val(data.registers)[i])])
         ELSE instance.registers]

\* PATCH /devices/{pk}/: ModbusDeviceViewSet.update with ModbusDeviceCreateSerializer;
\* a parent_device that does not exist fails the validation of the related field
PatchDevice(pk, data) ==
    /\ pk \in 1..Len(modbus_devices)
    /\ LET instance == modbus_devices[pk]
       IN IF data.parent_device # None /\ Val(data.parent_device) # None
             /\ Val(Val(data.parent_device)) \notin 1..Len(modbus_devices)
          THEN /\ modbus_devices' = modbus_devices
               /\ lastOp' = DeviceOp("patch_device", pk, data, 400, "parent_device")
          ELSE IF ModelChange(instance, data)
          THEN /\ modbus_devices' = modbus_devices
               /\ lastOp' = DeviceOp("patch_device", pk, data, 400, "device_model")
          ELSE IF data.application_type # None
                  /\ CategoryChange(instance.application_type, Val(data.application_type))
          THEN /\ modbus_devices' = modbus_devices
               /\ lastOp' = DeviceOp("patch_device", pk, data, 400, "application_type")
          ELSE /\ modbus_devices' = [modbus_devices EXCEPT ![pk] = UpdatedDevice(instance, data)]
               /\ lastOp' = DeviceOp("patch_device", pk, data, 200, "-")
    /\ UNCHANGED <<daily, monthly, flux, frame, benchmarks, jobs, targets>>

\* while current.parent_device and depth < 10
MaxDepth == 10

RECURSIVE CircularReference(_, _, _, _)
\* set_device_parent: the walk up the chain of parents of the new parent
CircularReference(device_rows, current, device_id, depth) ==
    IF device_rows[current].parent_device # None /\ depth < MaxDepth
    THEN \/ Val(device_rows[current].parent_device) = device_id
         \/ CircularReference(device_rows, Val(device_rows[current].parent_device),
                              device_id, depth + 1)
    ELSE FALSE

\* POST /devices/{pk}/set_parent/ with parent_device_id in the body
SetDeviceParent(pk, parent_id) ==
    /\ IF pk \notin 1..Len(modbus_devices)
       THEN /\ modbus_devices' = modbus_devices
            /\ lastOp' = DeviceOp("set_parent", pk, parent_id, 404, "-")
       ELSE IF parent_id = None
       THEN /\ modbus_devices' = [modbus_devices EXCEPT ![pk].parent_device = None]
            /\ lastOp' = DeviceOp("set_parent", pk, parent_id, 200, "-")
       ELSE IF Val(parent_id) \notin 1..Len(modbus_devices)
       THEN /\ modbus_devices' = modbus_devices
            /\ lastOp' = DeviceOp("set_parent", pk, parent_id, 404, "parent_device")
       ELSE IF Val(parent_id) = pk
               \/ CircularReference(modbus_devices, Val(parent_id), pk, 0)
       THEN /\ modbus_devices' = modbus_devices
            /\ lastOp' = DeviceOp("set_parent", pk, parent_id, 400, "parent_device")
       ELSE /\ modbus_devices' = [modbus_devices EXCEPT ![pk].parent_device = parent_id]
            /\ lastOp' = DeviceOp("set_parent", pk, parent_id, 200, "-")
    /\ UNCHANGED <<daily, monthly, flux, frame, benchmarks, jobs, targets>>

\* the application types and device models the requests of the model name
ApplicationTypeChoices == {"gen", "wapda", "dept", "machine"}

DeviceModelChoices == {"M1", "M2"}

\* the ids a request may name: the devices and one id that is never stored
DeviceIdChoices == 1..(MaxDevices + 1)

\* the register entries of a request body
EntryChoices ==
    { [id |-> id, address |-> address, name |-> name] :
        id \in {None, Some(1)}, address \in {10, 20}, name \in {"a", "b"} }

\* the registers lists of a request body: at most two entries
RegistersChoices ==
    {<<>>} \cup {<<e>> : e \in EntryChoices} \cup {<<e, f>> : e \in EntryChoices, f \in EntryChoices}

\* PATCH bodies without a registers key
DevicePatches ==
    {Patch(Some(p), None, None, None) : p \in {None} \cup {Some(d) : d \in DeviceIdChoices}}
    \cup {Patch(None, Some(t), None, None) : t \in ApplicationTypeChoices}
    \cup {Patch(None, None, Some(m), None) : m \in {None} \cup {Some(d) : d \in DeviceModelChoices}}
    \cup {Patch(Some(Some(2)), Some(t), None, None) : t \in ApplicationTypeChoices}
    \cup {Patch(None, Some(t), Some(Some("M2")), None) : t \in ApplicationTypeChoices}

\* PATCH bodies about the registers of a device
RegisterPatches ==
    {Patch(None, None, None, Some(r)) : r \in RegistersChoices}
    \cup {Patch(None, Some("machine"), None, None)}
    \cup {Patch(None, None, Some(Some("M1")), Some(<<>>))}

InitDevices ==
    /\ modbus_devices = NoDevices
    /\ targets = NoTargets
    /\ daily = EmptyBag
    /\ monthly = EmptyBag
    /\ benchmarks = EmptyBag
    /\ lastOp = DeviceOp("init", 0, None, 0, "-")
    /\ flux = NoFlux
    /\ frame = NoFrame
    /\ jobs = NoJobs

NextDevices ==
    \/ \E application_type \in ApplicationTypeChoices,
          device_model \in {None} \cup {Some(d) : d \in DeviceModelChoices} :
          CreateDevice(application_type, device_model, <<>>)
    \/ \E pk \in DeviceIdChoices, data \in DevicePatches : PatchDevice(pk, data)
    \/ \E pk \in DeviceIdChoices, parent_id \in {None} \cup {Some(d) : d \in DeviceIdChoices} :
          SetDeviceParent(pk, parent_id)

SpecDevices == InitDevices /\ [][NextDevices]_vars

NextRegisters ==
    \/ \E device_model \in {None} \cup {Some(d) : d \in DeviceModelChoices},
          entries \in RegistersChoices :
          CreateDevice("machine", device_model, entries)
    \/ \E pk \in DeviceIdChoices, data \in RegisterPatches : PatchDevice(pk, data)

SpecRegisters == InitDevices /\ [][NextRegisters]_vars

-----------------------------------------------------------------------------
(* Claims about the device hierarchy (checked under SpecDevices)           *)

StoredDevices == 1..Len(modbus_devices)

RECURSIVE AncestorAt(_, _)
\* the ancestor of a device k steps up the parent relation, None past the root
AncestorAt(device_id, k) ==
    IF k = 0 THEN Some(device_id)
    ELSE LET below == AncestorAt(device_id, k - 1)
         IN IF below = None THEN None ELSE modbus_devices[Val(below)].parent_device

\* C26: the parent relation is acyclic: no device is its own ancestor, whatever
\* sequence of set_parent calls and PATCHes of parent_device was made
C26_ParentRelationAcyclic ==
    \A d \in StoredDevices : \A k \in 1..Len(modbus_devices) : AncestorAt(d, k) # Some(d)

\* the statuses of an accepted and of a rejected request
Accepted == lastOp'.status = 200

Rejected == lastOp'.status = 400

\* an update of a stored device was answered
Patched == lastOp'.op = "patch_device" /\ lastOp'.pk \in StoredDevices

InSameCategory(old_application_type, new_application_type) ==
    \/ {old_application_type, new_application_type} \subseteq SupplyTypes
    \/ {old_application_type, new_application_type} \subseteq LoadTypes

-----------------------------------------------------------------------------
(* Claims about the registers of a device (checked under SpecRegisters)    *)

\* C27: no two registers of a device have the same address, after every create (model
\* registers copied, custom registers applied) and every update carrying registers
C27_AddressesUniquePerDevice ==
    \A d \in StoredDevices :
        \A i, j \in 1..Len(modbus_devices[d].registers) :
            modbus_devices[d].registers[i].address = modbus_devices[d].registers[j].address
                => i = j

\* a device was created from a model with a custom register at the address of a model
\* register: the custom register replaced it
C27_Witness ==
    /\ lastOp.op = "create_device"
    /\ lastOp.data[2] = Some("M2")
    /\ modbus_devices[lastOp.pk].registers = <<Register(10, "a"), Register(20, "m")>>

\* the addresses the entries of a request name
RequestAddresses(entries) == {entries[i].address : i \in 1..Len(entries)}

\* the name the last entry for an address gives
LastNameFor(entries, address) ==
    LET at == {i \in 1..Len(entries) : entries[i].address = address}
    IN entries[CHOOSE i \in at : \A j \in at : j <= i].name

\* C28: an accepted update carrying a registers list leaves the device with exactly the
\* registers of the request entries, one per address named, every other register being
\* deleted and an empty list deleting all; an update without a registers key leaves the
\* registers as they were
C28_RegistersListReplaces ==
    [][ (Patched /\ Accepted) =>
          LET before == modbus_devices[lastOp'.pk].registers
              after == modbus_devices'[lastOp'.pk].registers
          IN IF lastOp'.data.registers = None
             THEN after = before
             ELSE LET entries == Val(lastOp'.data.registers)
                  IN /\ {after[i] : i \in 1..Len(after)} =
                            {Register(a, LastNameFor(entries, a)) : a \in RequestAddresses(entries)}
                     /\ Len(after) = Cardinality(RequestAddresses(entries))
      ]_vars

\* an update naming one address left that one register of a device created with the two
\* registers of its model
C28_Witness ==
    /\ lastOp.op = "patch_device" /\ lastOp.status = 200
    /\ lastOp.data.registers = Some(<<[id |-> None, address |-> 20, name |-> "b"]>>)
    /\ modbus_devices[lastOp.pk].device_model = Some("M2")
    /\ modbus_devices[lastOp.pk].registers = <<Register(20, "b")>>

-----------------------------------------------------------------------------
(* Claims about the two monthly roll-ups (checked under Spec)              *)

\* the fields of a MonthlyAggregate both roll-ups compute
RollUpFields ==
    {"device", "month", "total_energy_kwh", "avg_daily_energy_kwh", "peak_power_kw",
     "component_breakdown", "total_units_produced", "efficiency_kwh_per_unit",
     "total_cost", "data_completeness"}

RolledUp(table) == {[f \in RollUpFields |-> r[f]] : r \in Rows(table)}

\* what _aggregate_monthly_from_daily stores for a device and month in an empty table
ServiceRollUp(device, month_start) ==
    RolledUp(MonthlyStep(daily, EmptyBag, device, month_start, FALSE).table)

\* what the management command stores for the device and month in an empty table
CommandRollUp(device, month_start) ==
    RolledUp(CommandLoop(EmptyBag, daily,
                         {r.device : r \in CommandDailyAggs(daily, month_start)} \cap {device},
                         month_start))

\* C30: for every aggregate store the service roll-up and the management command store
\* the same MonthlyAggregate for the same device and month, overtime rows, months
\* without units and months of zero energy included
C30_RollUpsAgree ==
    \A device \in {r.device : r \in Rows(daily)} : \A month_start \in {Jan1, Feb1} :
        ServiceRollUp(device, month_start) = CommandRollUp(device, month_start)

\* the same with the store restricted to months of regular rows with units and energy
C30_AgreeOnRegularProductiveMonths ==
    \A device \in {r.device : r \in Rows(daily)} : \A month_start \in {Jan1, Feb1} :
        LET S == DailyOfMonth(daily, device, month_start)
        IN ((\A r \in S : ~r.is_overtime)
            /\ SumOver(daily, S, [agg \in S |-> UnitsOf(agg)]) > 0
            /\ SumOver(daily, S, [agg \in S |-> agg.total_energy_kwh]) > 0)
           => ServiceRollUp(device, month_start) = CommandRollUp(device, month_start)

=============================================================================
